---------------------------- MODULE Spec2Model ----------------------------
(***************************************************************************)
(* Model of the qmt_weight_sync scheduled rebalancing run:                 *)
(*   core/scheduler_runner.py  SchedulerRunner (execute_trading,           *)
(*                             _wait_until_open, execute_value_recording)  *)
(*   core/trader.py            QMTWeightSyncTrader (calculate_target_volume,*)
(*                             execute_rebalance, wait_for_orders_completion)*)
(*   utils/status_manager.py   SchedulerStatusManager                      *)
(*   core/account_value_recorder.py  AccountValueRecorder                  *)
(*                                                                         *)
(* Conventions.  A Python dict is a sequence of records with distinct keys *)
(* (insertion order).  A stock code "688001.SH" is the triple              *)
(* <<"688", "001", "SH">> so that startswith/endswith are computed.  A     *)
(* weight is the fraction num/den.  Money is counted in integer price      *)
(* units and arithmetic on quotients is exact.  A status-file field is     *)
(* <<>> when the key is absent and <<v>> when it holds v.                  *)
(***************************************************************************)
EXTENDS Integers, Sequences, FiniteSets, TLC

(***************************************************************************)
(* Bounds of the model.                                                    *)
(***************************************************************************)
\* ceiling and poll interval passed to wait_for_orders_completion, seconds
MaxWaitTime == 4
CheckInterval == 2
\* longest time the preparation steps (load, connect, snapshot) may take
MaxPrepDelay == 301

(***************************************************************************)
(* Program constants.                                                      *)
(***************************************************************************)
\* config.PREPARE_TIME "09:25" and the 09:30 open, as seconds of the day
PREPARE_TIME == 33900
TargetTime == 34200
\* _wait_until_open: time.sleep(30) while remaining > 60
PollSleep == 30
FinalStretch == 60
\* _split_order_volume(max_per_order=100000)
max_per_order == 100000

(***************************************************************************)
(* Input domains.                                                          *)
(***************************************************************************)
StarA == <<"688", "001", "SH">>
MainB == <<"600", "000", "SH">>
OtherC == <<"688", "002", "SZ">>
Stocks == {StarA, MainB, OtherC}

Half == [num |-> 1, den |-> 2]
One == [num |-> 1, den |-> 1]

\* target_df as returned by get_target_position: rows (stock_code, weight)
TargetChoices ==
    { <<>>,
      << [stock_code |-> StarA, weight |-> One] >>,
      << [stock_code |-> MainB, weight |-> One] >>,
      << [stock_code |-> StarA, weight |-> Half],
         [stock_code |-> MainB, weight |-> Half] >> }

\* total_asset values reported by query_stock_asset
Assets == {10000, 30000}

\* position lists reported by query_stock_positions
PositionChoices ==
    { <<>>,
      << [stock_code |-> StarA, volume |-> 200, can_use_volume |-> 200] >>,
      << [stock_code |-> StarA, volume |-> 100, can_use_volume |-> 100],
         [stock_code |-> MainB, volume |-> 200, can_use_volume |-> 200] >>,
      << [stock_code |-> MainB, volume |-> 0, can_use_volume |-> 0],
         [stock_code |-> StarA, volume |-> 300, can_use_volume |-> 100] >>,
      << [stock_code |-> OtherC, volume |-> 100, can_use_volume |-> 100],
         [stock_code |-> MainB, volume |-> 300, can_use_volume |-> 100],
         [stock_code |-> StarA, volume |-> 200, can_use_volume |-> 200] >> }

(***************************************************************************)
(* Dict helpers.                                                           *)
(***************************************************************************)
Keys(d) == {d[i].stock_code : i \in 1..Len(d)}

\* dict.get(key, default) on a dict whose values are the field f
RECURSIVE GetFrom(_, _, _, _)
GetFrom(d, k, default, i) ==
    IF i > Len(d) THEN default
    ELSE IF d[i].stock_code = k THEN d[i].val
    ELSE GetFrom(d, k, default, i + 1)

Get(d, k, default) == GetFrom(d, k, default, 1)

\* d[k] = v on an insertion-ordered dict
Put(d, k, v) ==
    IF k \in Keys(d)
    THEN [i \in 1..Len(d) |->
            IF d[i].stock_code = k THEN [stock_code |-> k, val |-> v] ELSE d[i]]
    ELSE Append(d, [stock_code |-> k, val |-> v])


(***************************************************************************)
(* Quotes (xtdata.get_full_tick).  A tick carries a five-level ask ladder  *)
(* and a five-level bid ladder; Python index 2 is position 3 and index 4   *)
(* is position 5.                                                          *)
(***************************************************************************)
Tick(a3, a5, b5) ==
    [askPrice |-> <<101, 102, a3, 104, a5>>,
     bidPrice |-> <<99, 98, 97, 96, b5>>]

TickChoices == {Tick(100, 105, 95), Tick(0, 105, 95), Tick(100, 0, 0)}

\* every answer get_full_tick(stock_list) can give without raising: a tick
\* for some of the requested stocks
QuoteAnswers(stock_list) ==
    UNION {[S -> TickChoices] : S \in SUBSET stock_list}

(***************************************************************************)
(* QMTWeightSyncTrader: pure helpers.                                      *)
(***************************************************************************)
\* Python round() on the exact quotient n/d: nearest integer, ties to even
PyRound(n, d) ==
    LET q == n \div d
        r == n % d
    IN  IF 2 * r < d THEN q
        ELSE IF 2 * r > d THEN q + 1
        ELSE IF q % 2 = 0 THEN q ELSE q + 1

\* variant: rounds to the nearest share instead of the nearest 100 shares
round_to_hundred_to_share(n, d) == PyRound(n, d)

\* _round_to_hundred(volume) with volume = n/d: int(round(volume / 100) * 100)
round_to_hundred(n, d) == PyRound(n, d * 100) * 100

\* _is_star_market(stock_code)
is_star_market(stock_code) == stock_code[1] = "688" /\ stock_code[3] = "SH"

\* _split_order_volume(volume): the while loop
\* variant: the remainder is cut off first and the full chunks follow
RECURSIVE SplitLoop_short_first(_)
SplitLoop_short_first(remaining) ==
    IF remaining > 0
    THEN IF remaining > max_per_order
         THEN SplitLoop_short_first(remaining - max_per_order)
                  \o <<max_per_order>>
         ELSE <<remaining>>
    ELSE <<>>

RECURSIVE SplitLoop(_)
SplitLoop(remaining) ==
    IF remaining > 0
    THEN IF remaining > max_per_order
         THEN <<max_per_order>> \o SplitLoop(remaining - max_per_order)
         ELSE <<remaining>>
    ELSE <<>>

split_order_volume(volume) ==
    IF volume <= max_per_order THEN <<volume>> ELSE SplitLoop(volume)

\* get_current_position: positions with volume <= 0 are filtered out
RECURSIVE PositionLoop(_, _)
PositionLoop(positions, i) ==
    IF i > Len(positions) THEN <<>>
    ELSE LET pos == positions[i]
             rest == PositionLoop(positions, i + 1)
         IN  IF pos.volume <= 0 THEN rest
             ELSE <<[stock_code |-> pos.stock_code,
                     volume |-> pos.volume,
                     can_use_volume |-> pos.can_use_volume]>> \o rest

get_current_position(positions) == PositionLoop(positions, 1)

\* calculate_target_volume: the loop over target_position rows
\* variant: the first stock without a usable quote ends the loop
RECURSIVE TargetLoop_break(_, _, _, _, _)
TargetLoop_break(target_position, total_asset, realtime_data, i, target_volumes) ==
    IF i > Len(target_position) THEN target_volumes
    ELSE LET row == target_position[i]
             stock_code == row.stock_code
             weight == row.weight
         IN  IF stock_code \notin DOMAIN realtime_data
             THEN target_volumes
             ELSE LET price == realtime_data[stock_code].askPrice[3]
                  IN  IF price = 0
                      THEN target_volumes
                      ELSE TargetLoop_break(target_position, total_asset,
                                            realtime_data, i + 1,
                                            Put(target_volumes, stock_code,
                                                round_to_hundred(
                                                    total_asset * weight.num,
                                                    weight.den * price)))

RECURSIVE TargetLoop(_, _, _, _, _)
TargetLoop(target_position, total_asset, realtime_data, i, target_volumes) ==
    IF i > Len(target_position) THEN target_volumes
    ELSE LET row == target_position[i]
             stock_code == row.stock_code
             weight == row.weight
         IN  IF stock_code \notin DOMAIN realtime_data
             THEN TargetLoop(target_position, total_asset, realtime_data,
                             i + 1, target_volumes)
             ELSE LET price == realtime_data[stock_code].askPrice[3]
                  IN  IF price = 0
                      THEN TargetLoop(target_position, total_asset,
                                      realtime_data, i + 1, target_volumes)
                      ELSE TargetLoop(target_position, total_asset,
                                      realtime_data, i + 1,
                                      Put(target_volumes, stock_code,
                                          round_to_hundred(
                                              total_asset * weight.num,
                                              weight.den * price)))

\* calculate_target_volume(target_position, total_asset); tick_ok is FALSE
\* when get_full_tick raised, otherwise realtime_data is what it returned
calculate_target_volume(target_position, total_asset, tick_ok, realtime_data) ==
    IF ~tick_ok THEN <<>>
    ELSE TargetLoop(target_position, total_asset, realtime_data, 1, <<>>)

\* execute_rebalance step 1: the two diff loops
can_use(current_position) ==
    [i \in 1..Len(current_position) |->
        [stock_code |-> current_position[i].stock_code,
         val |-> current_position[i].can_use_volume]]

RECURSIVE SellLoop(_, _, _)
SellLoop(target_volumes, current_position, i) ==
    IF i > Len(current_position) THEN <<>>
    ELSE LET stock_code == current_position[i].stock_code
             current_volume == current_position[i].can_use_volume
             target_volume == Get(target_volumes, stock_code, 0)
             rest == SellLoop(target_volumes, current_position, i + 1)
         IN  IF current_volume > target_volume
             THEN <<[stock_code |-> stock_code,
                     volume |-> current_volume - target_volume]>> \o rest
             ELSE rest

RECURSIVE BuyLoop(_, _, _)
BuyLoop(target_volumes, current_position, i) ==
    IF i > Len(target_volumes) THEN <<>>
    ELSE LET stock_code == target_volumes[i].stock_code
             target_volume == target_volumes[i].val
             current_volume == Get(can_use(current_position), stock_code, 0)
             rest == BuyLoop(target_volumes, current_position, i + 1)
         IN  IF target_volume > current_volume
             THEN <<[stock_code |-> stock_code,
                     volume |-> target_volume - current_volume]>> \o rest
             ELSE rest

\* variant: the sell loop reads volume where the code reads can_use_volume
SellList_by_volume(target_volumes, current_position) ==
    SellLoop(target_volumes,
             [i \in 1..Len(current_position) |->
                 [current_position[i] EXCEPT
                     !.can_use_volume = current_position[i].volume]], 1)

\* variant: a holding that the plan does not name is left alone
SellList_keep_unplanned(target_volumes, current_position) == SellLoop(target_volumes, SelectSeq(current_position, LAMBDA pos : pos.stock_code \in Keys(target_volumes)), 1)

SellList(target_volumes, current_position) ==
    SellLoop(target_volumes, current_position, 1)

\* variant: the buy loop takes every current volume as the default 0
BuyList_no_holdings(target_volumes, current_position) ==
    BuyLoop(target_volumes, <<>>, 1)

BuyList(target_volumes, current_position) ==
    BuyLoop(target_volumes, current_position, 1)

\* variant: every stock is split, restricted segment or not
IntentOrders_split_all(side, stock_code, volume, price) ==
    LET tag == IF side = "SELL" THEN "sell_stock" ELSE "buy_stock"
        splits == split_order_volume(volume)
    IN  [i \in 1..Len(splits) |->
           [stock_code |-> stock_code, side |-> side,
            order_volume |-> splits[i], traded_volume |-> 0,
            price |-> price, strategy |-> "qmt_weight_sync",
            remark |-> <<tag, "split", i>>]]

\* the orders one intent produces: order_stock once, or once per split
IntentOrders(side, stock_code, volume, price) ==
    LET tag == IF side = "SELL" THEN "sell_stock" ELSE "buy_stock"
    IN  IF is_star_market(stock_code)
        THEN LET splits == split_order_volume(volume)
             IN  [i \in 1..Len(splits) |->
                    [stock_code |-> stock_code, side |-> side,
                     order_volume |-> splits[i], traded_volume |-> 0,
                     price |-> price, strategy |-> "qmt_weight_sync",
                     remark |-> <<tag, "split", i>>]]
        ELSE <<[stock_code |-> stock_code, side |-> side,
                order_volume |-> volume, traded_volume |-> 0,
                price |-> price, strategy |-> "qmt_weight_sync",
                remark |-> <<tag>>]>>

\* variant: the first intent without a usable quote ends the loop
RECURSIVE SubmitLoop_break(_, _, _, _, _)
SubmitLoop_break(side, list, realtime_data, i, n) ==
    IF i > n THEN <<>>
    ELSE LET stock_code == list[i].stock_code
             volume == list[i].volume
         IN  IF stock_code \notin DOMAIN realtime_data THEN <<>>
             ELSE LET price == IF side = "SELL"
                               THEN realtime_data[stock_code].bidPrice[5]
                               ELSE realtime_data[stock_code].askPrice[5]
                  IN  IF price = 0 THEN <<>>
                      ELSE IntentOrders(side, stock_code, volume, price)
                               \o SubmitLoop_break(side, list, realtime_data,
                                                   i + 1, n)

\* the submission loop of one phase over intents 1..n of list, n <= Len(list)
RECURSIVE SubmitLoop(_, _, _, _, _)
SubmitLoop(side, list, realtime_data, i, n) ==
    IF i > n THEN <<>>
    ELSE LET stock_code == list[i].stock_code
             volume == list[i].volume
             rest == SubmitLoop(side, list, realtime_data, i + 1, n)
         IN  IF stock_code \notin DOMAIN realtime_data THEN rest
             ELSE LET price == IF side = "SELL"
                               THEN realtime_data[stock_code].bidPrice[5]
                               ELSE realtime_data[stock_code].askPrice[5]
                  IN  IF price = 0 THEN rest
                      ELSE IntentOrders(side, stock_code, volume, price)
                               \o rest

\* variant: an order counts as done as soon as it has traded anything
AllTraded_partial(order_list) ==
    \/ order_list = <<>>
    \/ \A i \in 1..Len(order_list) : order_list[i].traded_volume > 0

\* variant: only the orders of this strategy are judged
AllTraded_own(order_list) == AllTraded_partial(<<>>) /\ \A i \in 1..Len(order_list) : order_list[i].strategy = "qmt_weight_sync" => ~(order_list[i].traded_volume < order_list[i].order_volume)

\* wait_for_orders_completion: the test one successful poll applies
AllTraded(order_list) ==
    \/ order_list = <<>>
    \/ \A i \in 1..Len(order_list) :
          ~(order_list[i].traded_volume < order_list[i].order_volume)

(***************************************************************************)
(* SchedulerStatusManager: the status file as a record of optional fields. *)
(***************************************************************************)
NoStatus ==
    [is_running |-> <<>>, last_run_time |-> <<>>, next_run_time |-> <<>>,
     last_status |-> <<>>, error_message |-> <<>>]

\* mark_running()
mark_running(st, t) ==
    [st EXCEPT !.is_running = <<TRUE>>, !.last_run_time = <<t>>]

\* a mark_completed that stores the message also when it is empty
mark_completed_any_message(st, success, message) == [st EXCEPT !.is_running = <<FALSE>>, !.last_status = IF success THEN <<"success">> ELSE <<"failed">>, !.error_message = <<message>>]

\* mark_completed(success, message); a message is the tuple of the parts
\* of the formatted string, the empty string is <<>>
mark_completed(st, success, message) ==
    LET st1 == [st EXCEPT !.is_running = <<FALSE>>,
                          !.last_status =
                              IF success THEN <<"success">> ELSE <<"failed">>]
    IN  IF message # <<>> THEN [st1 EXCEPT !.error_message = <<message>>]
        ELSE st1

\* update_next_run(next_run_time)
update_next_run(st, next_run_time) ==
    [st EXCEPT !.next_run_time = <<next_run_time>>]


(***************************************************************************)
(* State.                                                                  *)
(***************************************************************************)
VARIABLES
    job,               \* which scheduled job runs: "idle", "trading", "recording"
    pc,                \* position of the job in its procedure
    now,               \* wall clock, seconds of the day (datetime.now())
    status,            \* content of the scheduler status file
    connected,         \* trader.connect(): "no" (not called), "ok", "failed"
    orders,            \* the account's order list at the gateway, in submission order
    value_log,         \* dates recorded in the account value history file
    target_df,         \* execute_trading local: today's target rows
    account_info,      \* execute_trading local: the account snapshot
    current_position,  \* execute_trading local: the holdings snapshot
    target_volumes,    \* execute_trading local: the computed plan
    sell_list,         \* execute_rebalance local
    buy_list,          \* execute_rebalance local
    waited,            \* wait_for_orders_completion: time.time() - start_time
    sell_wait,         \* result of the sell-phase fill-wait: "none", "success", "timeout"
    buy_wait,          \* result of the buy-phase fill-wait
    quote_failed,      \* phases whose get_full_tick raised inside execute_rebalance
    success,           \* execute_trading local: what execute_rebalance returned
    raised,            \* history: message of the exception that failed the run, "" if none
    calendar,          \* history: what the trading-day query answered
    result,            \* return value of the job: "none", "true", "false"
    outcome,           \* terminal outcome of the run: "none", "skip", "SUCCESS", "FAILED"
    trace,             \* history: the run states entered, in order
    status_writes,     \* history: number of write_status calls made by the run
    call,              \* one call of a helper function: arguments and result
    fw,                \* one call of wait_for_orders_completion on its own
    trading_days_cache,\* TradingCalendar._trading_days_cache: a set of dates
    monthly_cache,     \* TradingCalendar._monthly_cache: month string -> entry
    cache_file,        \* the calendar cache file: <<>> when absent, else <<content>>
    clock,             \* datetime.now() as the calendar service reads it
    last_call,         \* history: the latest calendar call, its result and fetches
    singleton          \* TradingCalendar._instance and the threads constructing it

vars == <<job, pc, now, status, connected, orders, value_log, target_df,
          account_info, current_position, target_volumes, sell_list, buy_list,
          waited, sell_wait, buy_wait, quote_failed, success, raised,
          calendar, result, outcome, trace, status_writes, call, fw,
          trading_days_cache, monthly_cache, cache_file, clock, last_call,
          singleton>>

run_locals == <<target_df, account_info, current_position, target_volumes>>
exec_locals == <<sell_list, buy_list, waited, sell_wait, buy_wait, quote_failed>>
\* what the end of a run sets
ending == <<status, status_writes, success, raised, result, outcome>>
\* the calls examined on their own, outside a scheduled run
\* the state of the calendar service
service == <<trading_days_cache, monthly_cache, cache_file, clock, last_call>>
unit == <<call, fw, service, singleton>>

\* no such call is in progress
NoCall == [op |-> "none", in |-> <<>>, out |-> <<>>, done |-> FALSE]
NoWait == [active |-> FALSE]

\* the calendar service is not in use: its caches as __init__ resets them,
\* no cache file, nobody constructing it
ServiceIdle ==
    /\ trading_days_cache = {}
    /\ monthly_cache = <<>>
    /\ cache_file = <<>>
    /\ clock = [year |-> 2024, month |-> 12, day |-> 31, hour |-> 9]
    /\ last_call = [op |-> "none"]
    /\ singleton = [active |-> FALSE]

Today == "20240102"
Yesterday == "20240101"

\* the messages execute_trading passes to mark_completed
RebalanceSucceeded == <<"rebalance succeeded">>
RebalanceFailed == <<"rebalance failed">>
ComputeFailed == <<"target volume computation failed">>
ErrorMsg(e) == <<"error while rebalancing: ", e>>

\* a status file left by an earlier run
PrevStatus ==
    [is_running |-> <<FALSE>>, last_run_time |-> <<0>>,
     next_run_time |-> <<PREPARE_TIME>>, last_status |-> <<"success">>,
     error_message |-> <<RebalanceSucceeded>>]

\* an order placed on the account by someone else, still unfilled
OtherOrder ==
    [stock_code |-> MainB, side |-> "BUY", order_volume |-> 100,
     traded_volume |-> 0, price |-> 100, strategy |-> "other",
     remark |-> <<"manual">>]

Init ==
    /\ job = "idle"
    /\ pc = "idle"
    /\ now = PREPARE_TIME
    /\ status \in {NoStatus, PrevStatus}
    /\ connected = "no"
    /\ orders = <<>>
    /\ value_log \in {<<>>, <<Yesterday>>, <<Yesterday, Today>>}
    /\ target_df = <<>>
    /\ account_info = [total_asset |-> 0]
    /\ current_position = <<>>
    /\ target_volumes = <<>>
    /\ sell_list = <<>>
    /\ buy_list = <<>>
    /\ waited = 0
    /\ sell_wait = "none"
    /\ buy_wait = "none"
    /\ quote_failed = {}
    /\ success = "none"
    /\ raised = ""
    /\ calendar = "none"
    /\ result = "none"
    /\ outcome = "none"
    /\ trace = <<>>
    /\ status_writes = 0
    /\ call = NoCall
    /\ fw = NoWait
    /\ ServiceIdle

(***************************************************************************)
(* The scheduler fires a job (scheduler_service: CronTrigger at            *)
(* PREPARE_TIME / RECORD_TIME).                                            *)
(***************************************************************************)
Trigger ==
    /\ job = "idle"
    /\ \E j \in {"trading", "recording"} : job' = j
    /\ pc' = "CHECK_DAY"
    /\ trace' = <<"CHECK_DAY">>
    /\ UNCHANGED <<now, connected, orders, value_log, run_locals,
                   exec_locals, ending, calendar>>
    /\ UNCHANGED unit

(***************************************************************************)
(* The ways execute_trading ends after mark_running.                       *)
(***************************************************************************)
\* an exception e reaches the except branch of execute_trading
Raise(e) ==
    /\ status' = mark_completed(status, FALSE, ErrorMsg(e))
    /\ status_writes' = status_writes + 1
    /\ raised' = e
    /\ result' = "false"
    /\ outcome' = "FAILED"
    /\ pc' = "DONE"
    /\ trace' = Append(trace, "FAILED")
    /\ UNCHANGED success

\* variant: the empty-plan exit returns False without marking completion
EmptyPlan_unmarked(e) ==
    /\ raised' = e
    /\ result' = "false"
    /\ outcome' = "FAILED"
    /\ pc' = "DONE"
    /\ trace' = Append(trace, "FAILED")
    /\ UNCHANGED <<status, status_writes, success>>

\* calculate_target_volume returned an empty plan; e is the message of the
\* quote exception it caught and logged, "" if there was none
EmptyPlan(e) ==
    /\ status' = mark_completed(status, FALSE, ComputeFailed)
    /\ status_writes' = status_writes + 1
    /\ raised' = e
    /\ result' = "false"
    /\ outcome' = "FAILED"
    /\ pc' = "DONE"
    /\ trace' = Append(trace, "FAILED")
    /\ UNCHANGED success

\* execute_rebalance returned True
ReturnTrue ==
    /\ success' = "true"
    /\ status' = mark_completed(status, TRUE, RebalanceSucceeded)
    /\ status_writes' = status_writes + 1
    /\ result' = "true"
    /\ outcome' = "SUCCESS"
    /\ pc' = "DONE"
    /\ trace' = Append(trace, "SUCCESS")
    /\ UNCHANGED raised

\* execute_rebalance returned False; e is the message of the quote
\* exception it caught and logged, "" if there was none
ReturnFalse(e) ==
    /\ success' = "false"
    /\ status' = mark_completed(status, FALSE, RebalanceFailed)
    /\ status_writes' = status_writes + 1
    /\ raised' = e
    /\ result' = "false"
    /\ outcome' = "FAILED"
    /\ pc' = "DONE"
    /\ trace' = Append(trace, "FAILED")

\* the run moves on to its next state
Goto(state) ==
    /\ pc' = state
    /\ trace' = Append(trace, state)
    /\ UNCHANGED ending

(***************************************************************************)
(* SchedulerRunner.execute_trading / execute_value_recording.              *)
(***************************************************************************)
\* variant: a failing calendar query is taken as "trading day"
CheckDay_fail_open ==
    /\ pc = "CHECK_DAY"
    /\ \E answer \in {"trading", "closed", "raise"} :
          /\ calendar' = answer
          /\ IF answer # "closed"
             THEN IF job = "trading"
                  THEN /\ status' = mark_running(status, now)
                       /\ status_writes' = status_writes + 1
                       /\ pc' = "PREPARE"
                       /\ trace' = Append(trace, "PREPARE")
                       /\ UNCHANGED <<success, raised, result, outcome>>
                  ELSE Goto("RECORD")
             ELSE /\ result' = "true"
                  /\ outcome' = "skip"
                  /\ pc' = "DONE"
                  /\ trace' = Append(trace, "skip")
                  /\ UNCHANGED <<status, status_writes, success, raised>>
    /\ UNCHANGED <<job, now, connected, orders, value_log, run_locals,
                   exec_locals>>
    /\ UNCHANGED unit

\* step 0 of both jobs: is_trading_day_today().  The calendar answers
\* "trading" or "closed", or the query raises and is_trading_day_today
\* returns False.
CheckDay ==
    /\ pc = "CHECK_DAY"
    /\ \E answer \in {"trading", "closed", "raise"} :
          /\ calendar' = answer
          /\ IF answer = "trading"
             THEN IF job = "trading"
                  THEN /\ status' = mark_running(status, now)
                       /\ status_writes' = status_writes + 1
                       /\ pc' = "PREPARE"
                       /\ trace' = Append(trace, "PREPARE")
                       /\ UNCHANGED <<success, raised, result, outcome>>
                  ELSE Goto("RECORD")
             ELSE /\ result' = "true"
                  /\ outcome' = "skip"
                  /\ pc' = "DONE"
                  /\ trace' = Append(trace, "skip")
                  /\ UNCHANGED <<status, status_writes, success, raised>>
    /\ UNCHANGED <<job, now, connected, orders, value_log, run_locals,
                   exec_locals>>
    /\ UNCHANGED unit

\* steps 1-2: load_latest_position and get_target_position
Prepare ==
    /\ pc = "PREPARE"
    /\ \E loaded \in {"none", "empty", "raise", "ok"} :
          IF loaded = "ok"
          THEN \E t \in TargetChoices :
                  IF Len(t) = 0
                  THEN Raise("target position is empty")
                       /\ UNCHANGED target_df
                  ELSE target_df' = t /\ Goto("CONNECT")
          ELSE /\ Raise(IF loaded = "raise" THEN "cannot read position file"
                        ELSE "no position data")
               /\ UNCHANGED target_df
    /\ UNCHANGED <<job, now, connected, orders, value_log, account_info,
                   current_position, target_volumes, exec_locals, calendar>>
    /\ UNCHANGED unit

\* variant: the return value of connect() is not checked
Connect_unchecked ==
    /\ pc = "CONNECT"
    /\ \E r \in {"ok", "failed", "raise"} :
          IF r # "raise"
          THEN connected' = r /\ Goto("SNAPSHOT")
          ELSE connected' = "failed" /\ Raise("connect raised")
    /\ UNCHANGED <<job, now, orders, value_log, run_locals, exec_locals,
                   calendar>>
    /\ UNCHANGED unit

\* step 3: trader.connect()
Connect ==
    /\ pc = "CONNECT"
    /\ \E r \in {"ok", "failed", "raise"} :
          IF r = "ok"
          THEN connected' = "ok" /\ Goto("SNAPSHOT")
          ELSE /\ connected' = "failed"
               /\ Raise(IF r = "raise" THEN "connect raised"
                        ELSE "connect to trading account failed")
    /\ UNCHANGED <<job, now, orders, value_log, run_locals, exec_locals,
                   calendar>>
    /\ UNCHANGED unit

\* steps 4-5: get_account_info and get_current_position; the preparation
\* so far has taken d seconds
Snapshot ==
    /\ pc = "SNAPSHOT"
    /\ \/ /\ Raise("account query failed")
          /\ UNCHANGED <<now, account_info, current_position>>
       \/ \E a \in Assets, p \in PositionChoices, d \in 0..MaxPrepDelay :
             /\ account_info' = [total_asset |-> a]
             /\ current_position' = get_current_position(p)
             /\ now' = now + d
             /\ Goto("WAIT_OPEN")
    /\ UNCHANGED <<job, connected, orders, value_log, target_df,
                   target_volumes, exec_locals, calendar>>
    /\ UNCHANGED unit

\* variant: the loop sleeps 30 s whenever any time remains
WaitUntilOpen_coarse ==
    /\ pc = "WAIT_OPEN"
    /\ IF now >= TargetTime
       THEN now' = now /\ Goto("COMPUTE")
       ELSE now' = now + PollSleep /\ UNCHANGED <<pc, trace, ending>>
    /\ UNCHANGED <<job, connected, orders, value_log, run_locals,
                   exec_locals, calendar>>
    /\ UNCHANGED unit

\* _wait_until_open: one iteration of the while loop
WaitUntilOpen ==
    /\ pc = "WAIT_OPEN"
    /\ LET remaining == TargetTime - now
       IN  IF now >= TargetTime
           THEN now' = now /\ Goto("COMPUTE")
           ELSE IF remaining > FinalStretch
           THEN now' = now + PollSleep /\ UNCHANGED <<pc, trace, ending>>
           ELSE IF remaining > 0
           THEN now' = now + remaining /\ Goto("COMPUTE")
           ELSE now' = now /\ Goto("COMPUTE")
    /\ UNCHANGED <<job, connected, orders, value_log, run_locals,
                   exec_locals, calendar>>
    /\ UNCHANGED unit

\* variant: the plan is passed on without the empty-plan check
Compute_unchecked ==
    /\ pc = "COMPUTE"
    /\ \/ /\ Raise("target volume computation raised")
          /\ UNCHANGED target_volumes
       \/ \E tick_ok \in BOOLEAN :
          \E realtime_data \in IF tick_ok THEN QuoteAnswers(Keys(target_df))
                                          ELSE {<<>>} :
             /\ target_volumes' = calculate_target_volume(target_df,
                             account_info.total_asset, tick_ok, realtime_data)
             /\ Goto("EXECUTE")
    /\ UNCHANGED <<job, now, connected, orders, value_log, target_df,
                   account_info, current_position, exec_locals, calendar>>
    /\ UNCHANGED unit

\* variant: the account is queried again after the wait
Compute_resnapshot ==
    /\ pc = "COMPUTE"
    /\ \/ /\ Raise("target volume computation raised")
          /\ UNCHANGED <<target_volumes, account_info>>
       \/ \E a \in Assets, tick_ok \in BOOLEAN :
          \E realtime_data \in IF tick_ok THEN QuoteAnswers(Keys(target_df))
                                          ELSE {<<>>} :
             LET plan == calculate_target_volume(target_df, a, tick_ok,
                                                 realtime_data)
             IN  /\ account_info' = [total_asset |-> a]
                 /\ target_volumes' = plan
                 /\ IF plan = <<>>
                    THEN EmptyPlan(IF tick_ok THEN "" ELSE "get_full_tick failed")
                    ELSE Goto("EXECUTE")
    /\ UNCHANGED <<job, now, connected, orders, value_log, target_df,
                   current_position, exec_locals, calendar>>
    /\ UNCHANGED unit

\* step 6: calculate_target_volume on the snapshot's total_asset, and the
\* empty-plan check
Compute ==
    /\ pc = "COMPUTE"
    /\ \/ /\ Raise("target volume computation raised")
          /\ UNCHANGED target_volumes
       \/ \E tick_ok \in BOOLEAN :
          \E realtime_data \in IF tick_ok THEN QuoteAnswers(Keys(target_df))
                                          ELSE {<<>>} :
             LET plan == calculate_target_volume(target_df,
                             account_info.total_asset, tick_ok, realtime_data)
             IN  /\ target_volumes' = plan
                 /\ IF plan = <<>>
                    THEN EmptyPlan(IF tick_ok THEN "" ELSE "get_full_tick failed")
                    ELSE Goto("EXECUTE")
    /\ UNCHANGED <<job, now, connected, orders, value_log, target_df,
                   account_info, current_position, exec_locals, calendar>>
    /\ UNCHANGED unit

(***************************************************************************)
(* QMTWeightSyncTrader.execute_rebalance, called at step 7.                *)
(***************************************************************************)
\* step 1 of execute_rebalance: the diff; then the first non-empty phase
ExecuteDiff ==
    /\ pc = "EXECUTE"
    /\ sell_list' = SellList(target_volumes, current_position)
    /\ buy_list' = BuyList(target_volumes, current_position)
    /\ IF sell_list' # <<>>
       THEN pc' = "SELL" /\ UNCHANGED <<trace, ending>>
       ELSE IF buy_list' # <<>>
       THEN pc' = "BUY" /\ UNCHANGED <<trace, ending>>
       ELSE ReturnTrue
    /\ UNCHANGED <<job, now, connected, orders, value_log, run_locals,
                   waited, sell_wait, buy_wait, quote_failed, calendar>>
    /\ UNCHANGED unit

\* the stocks of an intent list
StockList(list) == {list[i].stock_code : i \in 1..Len(list)}

\* variant: a failed batch quote is taken as an answer without entries
PhaseSubmit_quote_failure_skips(side, list) ==
    \/ /\ quote_failed' = quote_failed \cup {side}
       /\ waited' = 0
       /\ pc' = IF side = "SELL" THEN "SELL_WAIT" ELSE "BUY_WAIT"
       /\ UNCHANGED <<orders, trace, ending>>
    \/ \E realtime_data \in QuoteAnswers(StockList(list)) :
          /\ orders' = orders \o SubmitLoop(side, list, realtime_data, 1,
                                            Len(list))
          /\ waited' = 0
          /\ pc' = IF side = "SELL" THEN "SELL_WAIT" ELSE "BUY_WAIT"
          /\ UNCHANGED <<quote_failed, trace, ending>>

\* steps 2 and 4: the batch quote and the submission loop of one phase.
\* The quote call raises, or answers and the loop submits the intents; an
\* order_stock call may raise at intent n + 1 after n intents were handled.
PhaseSubmit(side, list) ==
    \/ /\ quote_failed' = quote_failed \cup {side}
       /\ ReturnFalse("get_full_tick failed")
       /\ UNCHANGED <<orders, waited>>
    \/ \E realtime_data \in QuoteAnswers(StockList(list)) :
          \/ /\ orders' = orders \o SubmitLoop(side, list, realtime_data, 1,
                                               Len(list))
             /\ waited' = 0
             /\ pc' = IF side = "SELL" THEN "SELL_WAIT" ELSE "BUY_WAIT"
             /\ UNCHANGED <<quote_failed, trace, ending>>
          \/ \E n \in 0..(Len(list) - 1) :
                /\ SubmitLoop(side, list, realtime_data, n + 1, n + 1) # <<>>
                /\ orders' = orders \o SubmitLoop(side, list, realtime_data,
                                                  1, n)
                /\ Raise("order_stock raised")
                /\ UNCHANGED <<quote_failed, waited>>

SellPhase ==
    /\ pc = "SELL"
    /\ PhaseSubmit("SELL", sell_list)
    /\ UNCHANGED <<job, now, connected, value_log, run_locals, sell_list,
                   buy_list, sell_wait, buy_wait, calendar>>
    /\ UNCHANGED unit

BuyPhase ==
    /\ pc = "BUY"
    /\ PhaseSubmit("BUY", buy_list)
    /\ UNCHANGED <<job, now, connected, value_log, run_locals, sell_list,
                   buy_list, sell_wait, buy_wait, calendar>>
    /\ UNCHANGED unit

\* variant: the sell-phase timeout cancels what is still pending
SellWaitTimeout_cancels ==
    /\ sell_wait' = "timeout"
    /\ ReturnFalse("")
    /\ orders' = SelectSeq(orders,
                           LAMBDA o : o.traded_volume = o.order_volume)
    /\ UNCHANGED <<waited, buy_wait>>

\* "if not self.wait_for_orders_completion(): return False" (sell phase)
SellWaitTimeout ==
    /\ sell_wait' = "timeout"
    /\ ReturnFalse("")
    /\ UNCHANGED <<orders, waited, buy_wait>>

\* the sell-phase fill-wait returned True: on to the buy phase, if any
SellWaitSuccess ==
    /\ sell_wait' = "success"
    /\ IF buy_list # <<>>
       THEN pc' = "BUY" /\ UNCHANGED <<trace, ending>>
       ELSE ReturnTrue
    /\ UNCHANGED <<orders, waited, buy_wait>>

\* "if not self.wait_for_orders_completion(): return False" (buy phase)
BuyWaitTimeout ==
    /\ buy_wait' = "timeout"
    /\ ReturnFalse("")
    /\ UNCHANGED <<orders, waited, sell_wait>>

\* the buy-phase fill-wait returned True
BuyWaitSuccess ==
    /\ buy_wait' = "success"
    /\ ReturnTrue
    /\ UNCHANGED <<orders, waited, sell_wait>>

\* variant: leaving the loop at the ceiling is reported as success
PollOrders_ceiling_true(Success, Timeout) ==
    IF ~(waited < MaxWaitTime)
    THEN Success
    ELSE \E query_ok \in BOOLEAN :
            IF query_ok /\ AllTraded(orders)
            THEN Success
            ELSE /\ waited' = waited + CheckInterval
                 /\ UNCHANGED <<pc, orders, sell_wait, buy_wait, trace,
                                ending>>

\* wait_for_orders_completion: one evaluation of the while condition and,
\* if it holds, one poll.  The query raises or returns the order list.
PollOrders(Success, Timeout) ==
    IF ~(waited < MaxWaitTime)
    THEN Timeout
    ELSE \E query_ok \in BOOLEAN :
            IF query_ok /\ AllTraded(orders)
            THEN Success
            ELSE /\ waited' = waited + CheckInterval
                 /\ UNCHANGED <<pc, orders, sell_wait, buy_wait, trace,
                                ending>>

SellWait ==
    /\ pc = "SELL_WAIT"
    /\ PollOrders(SellWaitSuccess, SellWaitTimeout)
    /\ UNCHANGED <<job, now, connected, value_log, run_locals, sell_list,
                   buy_list, quote_failed, calendar>>
    /\ UNCHANGED unit

BuyWait ==
    /\ pc = "BUY_WAIT"
    /\ PollOrders(BuyWaitSuccess, BuyWaitTimeout)
    /\ UNCHANGED <<job, now, connected, value_log, run_locals, sell_list,
                   buy_list, quote_failed, calendar>>
    /\ UNCHANGED unit

(***************************************************************************)
(* The gateway and the market (environment).                               *)
(***************************************************************************)
\* the exchange trades a pending order, in part or in full
Fill ==
    /\ pc \in {"SELL_WAIT", "BUY_WAIT"}
    /\ \E i \in 1..Len(orders) :
          /\ orders[i].traded_volume < orders[i].order_volume
          /\ \E v \in {orders[i].order_volume \div 2, orders[i].order_volume} :
                /\ v > orders[i].traded_volume
                /\ orders' = [orders EXCEPT ![i].traded_volume = v]
    /\ UNCHANGED <<job, pc, now, connected, value_log, run_locals,
                   exec_locals, ending, trace, calendar>>
    /\ UNCHANGED unit

\* another client of the account places an order before the run trades
OtherClientOrder ==
    /\ pc = "EXECUTE"
    /\ orders = <<>>
    /\ orders' = <<OtherOrder>>
    /\ UNCHANGED <<job, pc, now, connected, value_log, run_locals,
                   exec_locals, ending, trace, calendar>>
    /\ UNCHANGED unit

(***************************************************************************)
(* execute_value_recording, after the trading-day gate:                    *)
(* AccountValueRecorder.record_account_value.                              *)
(***************************************************************************)
is_already_recorded(log, date) == \E i \in 1..Len(log) : log[i] = date

RecordValue ==
    /\ pc = "RECORD"
    /\ \E r \in {"ok", "failed", "raise"} :
          IF r = "ok"
          THEN /\ connected' = "ok"
               /\ value_log' = IF is_already_recorded(value_log, Today)
                               THEN value_log
                               ELSE Append(value_log, Today)
               /\ result' = "true"
               /\ outcome' = "SUCCESS"
               /\ trace' = Append(trace, "SUCCESS")
          ELSE /\ connected' = "failed"
               /\ value_log' = value_log
               /\ result' = "false"
               /\ outcome' = "FAILED"
               /\ trace' = Append(trace, "FAILED")
    /\ pc' = "DONE"
    /\ UNCHANGED <<job, now, status, status_writes, success, raised, orders,
                   run_locals, exec_locals, calendar>>
    /\ UNCHANGED unit

Next ==
    \/ Trigger
    \/ CheckDay
    \/ Prepare
    \/ Connect
    \/ Snapshot
    \/ WaitUntilOpen
    \/ Compute
    \/ ExecuteDiff
    \/ SellPhase
    \/ SellWait
    \/ BuyPhase
    \/ BuyWait
    \/ Fill
    \/ OtherClientOrder
    \/ RecordValue

Spec == Init /\ [][Next]_vars

\* the steps of the job's own thread
RunThread ==
    \/ CheckDay
    \/ Prepare
    \/ Connect
    \/ Snapshot
    \/ WaitUntilOpen
    \/ Compute
    \/ ExecuteDiff
    \/ SellPhase
    \/ SellWait
    \/ BuyPhase
    \/ BuyWait
    \/ RecordValue

\* a triggered job runs in a thread of its own and is not killed: it keeps
\* executing until it returns
RunFairSpec == Spec /\ WF_vars(RunThread)

\* the run's own thread keeps executing its wait loop
FairSpec == Spec /\ WF_vars(WaitUntilOpen)

(***************************************************************************)
(* Properties.                                                             *)
(***************************************************************************)
\* the orders this run submitted, as positions of the account's order list
RunOrders(side) ==
    {i \in 1..Len(orders) : /\ orders[i].strategy = "qmt_weight_sync"
                            /\ orders[i].side = side}

FullyTraded(o) == o.traded_volume = o.order_volume

\* execute_rebalance has computed its two lists
DiffDone ==
    \/ pc \in {"SELL", "SELL_WAIT", "BUY", "BUY_WAIT"}
    \/ pc = "DONE" /\ \E k \in 1..Len(trace) : trace[k] = "EXECUTE"

\* the plan and the holdings as the claims read them: value per stock,
\* 0 when the stock is not a key
PlanOf(s) ==
    IF \E i \in 1..Len(target_volumes) : target_volumes[i].stock_code = s
    THEN target_volumes[CHOOSE i \in 1..Len(target_volumes) :
                            target_volumes[i].stock_code = s].val
    ELSE 0

Held(s) == \E i \in 1..Len(current_position) :
              current_position[i].stock_code = s

CanUseOf(s) ==
    IF Held(s)
    THEN current_position[CHOOSE i \in 1..Len(current_position) :
                              current_position[i].stock_code = s].can_use_volume
    ELSE 0

Planned(s) == \E i \in 1..Len(target_volumes) :
                 target_volumes[i].stock_code = s

Intents(list) == {<<list[i].stock_code, list[i].volume>> : i \in 1..Len(list)}

\* C1: with a non-empty sell list, a BUY order of the run exists only after
\* the sell-phase fill-wait returned success, which a poll does only on
\* seeing the order list empty or fully traded, so every order placed
\* before the first BUY is fully traded; and every SELL submission of the
\* run precedes every BUY submission.
C1_SellBeforeBuy ==
    /\ (sell_list # <<>> /\ RunOrders("BUY") # {}) =>
          /\ sell_wait = "success"
          /\ \A i \in 1..Len(orders) :
                (\A b \in RunOrders("BUY") : i < b) => FullyTraded(orders[i])
    /\ \A i \in RunOrders("SELL"), b \in RunOrders("BUY") : i < b

C1_Witness ==
    /\ sell_list # <<>>
    /\ RunOrders("SELL") # {}
    /\ RunOrders("BUY") # {}

\* C2: when the sell-phase fill-wait times out the run returns false at
\* once, no BUY order exists, and neither the timeout step nor any later
\* step changes the account's order list (nothing is cancelled).
C2_SellTimeoutAborts ==
    [][ /\ (sell_wait # "timeout" /\ sell_wait' = "timeout") =>
              /\ success' = "false"
              /\ pc' = "DONE"
              /\ orders' = orders
              /\ RunOrders("BUY") = {}
        /\ sell_wait = "timeout" =>
              /\ orders' = orders
              /\ success' = "false" ]_vars

C2_Witness ==
    /\ sell_wait = "timeout"
    /\ success = "false"
    /\ \E i \in RunOrders("SELL") : ~FullyTraded(orders[i])

\* C3: after the diff the sell list is exactly the held stocks whose
\* can_use_volume exceeds the planned volume (0 if unplanned), each with the
\* difference, and the buy list is exactly the planned stocks whose planned
\* volume exceeds the can_use_volume (0 if unheld), each with the
\* difference; each stock occurs once, every volume is positive and no sell
\* volume exceeds the can_use_volume.
C3_DiffExact ==
    DiffDone =>
        /\ Intents(sell_list) =
              {<<s, CanUseOf(s) - PlanOf(s)>> :
                  s \in {t \in Stocks : Held(t) /\ CanUseOf(t) > PlanOf(t)}}
        /\ Intents(buy_list) =
              {<<s, PlanOf(s) - CanUseOf(s)>> :
                  s \in {t \in Stocks : Planned(t) /\ PlanOf(t) > CanUseOf(t)}}
        /\ Cardinality(Intents(sell_list)) = Len(sell_list)
        /\ Cardinality(Intents(buy_list)) = Len(buy_list)
        /\ \A i \in 1..Len(sell_list) :
              /\ sell_list[i].volume > 0
              /\ sell_list[i].volume <= CanUseOf(sell_list[i].stock_code)
        /\ \A i \in 1..Len(buy_list) : buy_list[i].volume > 0

C3_Witness ==
    /\ DiffDone
    /\ sell_list # <<>>
    /\ buy_list # <<>>
    /\ \E s \in Stocks : Held(s) /\ ~Planned(s)
    /\ \E s \in Stocks : Held(s) /\ CanUseOf(s) < PlanOf(s)

\* C4: after the diff no stock is in both lists, and a stock whose
\* can_use_volume equals its planned volume is in neither.
C4_DiffPartition ==
    DiffDone =>
        /\ StockList(sell_list) \cap StockList(buy_list) = {}
        /\ \A s \in Stocks :
              CanUseOf(s) = PlanOf(s) =>
                  s \notin StockList(sell_list) \cup StockList(buy_list)

C4_Witness ==
    /\ DiffDone
    /\ sell_list # <<>>
    /\ buy_list # <<>>
    /\ \E s \in Stocks :
          Held(s) /\ Planned(s) /\ CanUseOf(s) = PlanOf(s) /\ PlanOf(s) > 0

\* C5: execute_rebalance returns true only if every phase with a non-empty
\* list had its fill-wait succeed before the ceiling, the order list then
\* being fully traded; it returns false whenever a batch quote call failed
\* or a fill-wait timed out.
C5_TrueOnlyIfFilled ==
    /\ success = "true" =>
          /\ sell_list # <<>> => sell_wait = "success"
          /\ buy_list # <<>> => buy_wait = "success"
          /\ (sell_list # <<>> \/ buy_list # <<>>) =>
                /\ waited < MaxWaitTime
                /\ \A i \in 1..Len(orders) : FullyTraded(orders[i])
          /\ quote_failed = {}
    /\ (quote_failed # {} \/ sell_wait = "timeout" \/ buy_wait = "timeout")
          => success = "false"

C5_Witness ==
    /\ success = "true"
    /\ sell_wait = "success"
    /\ buy_wait = "success"
    /\ RunOrders("SELL") # {}
    /\ RunOrders("BUY") # {}

\* the state of the run in which it failed or succeeded
Entered(state) == \E k \in 1..Len(trace) : trace[k] = state
LastState == IF Len(trace) >= 2 THEN trace[Len(trace) - 1] ELSE "none"

FailureMessage ==
    IF success = "false" THEN RebalanceFailed
    ELSE IF LastState = "COMPUTE" /\ raised \in {"", "get_full_tick failed"}
    THEN ComputeFailed
    ELSE ErrorMsg(raised)

TradingFailureRecorded ==
    /\ result = "false"
    /\ pc = "DONE"
    /\ trace[Len(trace)] = "FAILED"
    /\ LastState \in {"PREPARE", "CONNECT", "SNAPSHOT", "COMPUTE", "EXECUTE"}
    /\ status.is_running = <<FALSE>>
    /\ status.last_status = <<"failed">>

C8_NonTradingDayNoOp ==
    /\ [](calendar \in {"closed", "raise"} =>
            /\ outcome = "skip"
            /\ result = "true"
            /\ pc = "DONE"
            /\ status_writes = 0
            /\ connected = "no"
            /\ orders = <<>>)
    /\ [][calendar' \in {"closed", "raise"} =>
            /\ status' = status
            /\ connected' = connected
            /\ orders' = orders
            /\ value_log' = value_log]_vars

C8_Witness ==
    /\ job = "recording"
    /\ calendar = "raise"
    /\ outcome = "skip"
    /\ ~is_already_recorded(value_log, Today)

\* the states of a trading run, in order
RunOrder ==
    <<"CHECK_DAY", "PREPARE", "CONNECT", "SNAPSHOT", "WAIT_OPEN", "COMPUTE",
      "EXECUTE">>

\* the run state the program counter is in
StateOf(p) ==
    IF p \in {"SELL", "SELL_WAIT", "BUY", "BUY_WAIT"} THEN "EXECUTE" ELSE p

C10_WaitUntilOpen ==
    /\ [][pc = "WAIT_OPEN" =>
            IF now >= TargetTime
            THEN pc' = "COMPUTE" /\ now' = now
            ELSE IF TargetTime - now > 60
            THEN pc' = "WAIT_OPEN" /\ now' = now + 30
            ELSE pc' = "COMPUTE" /\ now' = TargetTime]_vars
    /\ [][now' # now => pc = "SNAPSHOT" \/ now' <= TargetTime]_vars
    /\ [](Entered("COMPUTE") => now >= TargetTime)
    /\ (pc = "WAIT_OPEN" ~> pc # "WAIT_OPEN")

C10_Witness ==
    /\ pc = "COMPUTE"
    /\ now = TargetTime
    /\ account_info.total_asset > 0

\* the run of a trading job has called mark_running: its first status write
MarkedRunning == job = "trading" /\ status_writes >= 1

\* mark_completed calls made by the run: its status writes after the first
CompletedCalls == IF status_writes = 0 THEN 0 ELSE status_writes - 1

\* C11: every trading-day run that marks the status running calls
\* mark_completed exactly once before it returns, and it does return; the
\* run being the only writer, the status it leaves has is_running false and
\* last_status "success" exactly when it returned true, "failed" exactly
\* when it returned false.
C11_CompletedOnce ==
    /\ (MarkedRunning ~> (pc = "DONE" /\ CompletedCalls = 1))
    /\ [](MarkedRunning => (CompletedCalls = 1 <=> pc = "DONE"))
    /\ [](MarkedRunning /\ pc # "DONE" =>
              CompletedCalls = 0 /\ status.is_running = <<TRUE>>)
    /\ [](MarkedRunning /\ pc = "DONE" =>
              /\ status.is_running = <<FALSE>>
              /\ result \in {"true", "false"}
              /\ (result = "true" <=> status.last_status = <<"success">>)
              /\ (result = "false" <=> status.last_status = <<"failed">>))

C11_Witness ==
    /\ MarkedRunning
    /\ pc = "DONE"
    /\ result = "false"
    /\ outcome = "FAILED"
    /\ LastState = "COMPUTE"
    /\ raised = ""
    /\ status.last_status = <<"failed">>
    /\ status_writes = 2

(***************************************************************************)
(* wait_for_orders_completion called on its own, with any ceiling and      *)
(* interval, against an order list the gateway keeps filling.              *)
(***************************************************************************)
\* largest max_wait_time and check_interval passed, longest order query
MaxCeiling == 10
MaxInterval == 3
MaxQueryTime == 1

\* every order of the list fully traded
Traded(order_list) ==
    [i \in DOMAIN order_list |->
        [order_list[i] EXCEPT !.traded_volume = order_list[i].order_volume]]

\* the day's order lists the gateway may hold when the wait starts
WaitOrderLists ==
    { <<>>,
      IntentOrders("SELL", MainB, 200, 95),
      Traded(IntentOrders("SELL", MainB, 200, 95)),
      Traded(IntentOrders("SELL", MainB, 200, 95))
          \o IntentOrders("BUY", StarA, 100, 105) }

\* everything of a scheduled run except the gateway's order list
scheduled == <<job, pc, now, status, connected, value_log, run_locals,
               exec_locals, success, raised, calendar, result, outcome,
               trace, status_writes>>

\* no job has been triggered
Parked ==
    /\ job = "idle"
    /\ pc = "idle"
    /\ now = PREPARE_TIME
    /\ status = NoStatus
    /\ connected = "no"
    /\ value_log = <<>>
    /\ target_df = <<>>
    /\ account_info = [total_asset |-> 0]
    /\ current_position = <<>>
    /\ target_volumes = <<>>
    /\ sell_list = <<>>
    /\ buy_list = <<>>
    /\ waited = 0
    /\ sell_wait = "none"
    /\ buy_wait = "none"
    /\ quote_failed = {}
    /\ success = "none"
    /\ raised = ""
    /\ calendar = "none"
    /\ result = "none"
    /\ outcome = "none"
    /\ trace = <<>>
    /\ status_writes = 0

\* start_time = time.time(): the call has just been entered.  elapsed is
\* time.time() - start_time; polls, sleeps, failed and query_time are
\* history: queries issued, sleeps taken, queries that raised, and the
\* time spent inside queries; last is the outcome of the latest query.
WaitInit ==
    /\ Parked
    /\ orders \in WaitOrderLists
    /\ call = NoCall
    /\ ServiceIdle
    /\ \E max_wait_time \in 0..MaxCeiling, check_interval \in 1..MaxInterval :
          fw = [active |-> TRUE, max_wait_time |-> max_wait_time,
                check_interval |-> check_interval, elapsed |-> 0,
                polls |-> 0, sleeps |-> 0, failed |-> 0, query_time |-> 0,
                last |-> "none", result |-> "none"]

\* variant: the loop condition admits a poll at exactly the ceiling
wait_for_orders_completion_inclusive ==
    /\ fw.active
    /\ fw.result = "none"
    /\ IF fw.elapsed > fw.max_wait_time
       THEN fw' = [fw EXCEPT !.result = "false"]
       ELSE \E query_ok \in BOOLEAN, t \in 0..MaxQueryTime :
               LET asked == [fw EXCEPT !.polls = @ + 1,
                                       !.elapsed = @ + t,
                                       !.query_time = @ + t,
                                       !.last = IF query_ok THEN "ok"
                                                ELSE "raise"]
               IN  IF query_ok /\ AllTraded(orders)
                   THEN fw' = [asked EXCEPT !.result = "true"]
                   ELSE fw' = [asked EXCEPT
                                  !.sleeps = @ + 1,
                                  !.elapsed = @ + fw.check_interval,
                                  !.failed = IF query_ok THEN @ ELSE @ + 1]
    /\ UNCHANGED <<scheduled, orders, call, service, singleton>>

\* variant: success is reported only after one more sleep
wait_for_orders_completion_sleep_first ==
    /\ fw.active
    /\ fw.result = "none"
    /\ IF ~(fw.elapsed < fw.max_wait_time)
       THEN fw' = [fw EXCEPT !.result = "false"]
       ELSE \E query_ok \in BOOLEAN, t \in 0..MaxQueryTime :
               LET asked == [fw EXCEPT !.polls = @ + 1,
                                       !.elapsed = @ + t,
                                       !.query_time = @ + t,
                                       !.last = IF query_ok THEN "ok"
                                                ELSE "raise"]
               IN  IF query_ok /\ AllTraded(orders)
                   THEN fw' = [asked EXCEPT
                                  !.result = "true",
                                  !.sleeps = @ + 1,
                                  !.elapsed = @ + fw.check_interval]
                   ELSE fw' = [asked EXCEPT
                                  !.sleeps = @ + 1,
                                  !.elapsed = @ + fw.check_interval,
                                  !.failed = IF query_ok THEN @ ELSE @ + 1]
    /\ UNCHANGED <<scheduled, orders, call, service, singleton>>

\* variant: a query that raises ends the wait with False
wait_for_orders_completion_abort_on_error ==
    /\ fw.active
    /\ fw.result = "none"
    /\ IF ~(fw.elapsed < fw.max_wait_time)
       THEN fw' = [fw EXCEPT !.result = "false"]
       ELSE \E query_ok \in BOOLEAN, t \in 0..MaxQueryTime :
               LET asked == [fw EXCEPT !.polls = @ + 1,
                                       !.elapsed = @ + t,
                                       !.query_time = @ + t,
                                       !.last = IF query_ok THEN "ok"
                                                ELSE "raise"]
               IN  IF query_ok /\ AllTraded(orders)
                   THEN fw' = [asked EXCEPT !.result = "true"]
                   ELSE IF query_ok
                   THEN fw' = [asked EXCEPT
                                  !.sleeps = @ + 1,
                                  !.elapsed = @ + fw.check_interval]
                   ELSE fw' = [asked EXCEPT !.result = "false",
                                            !.failed = @ + 1]
    /\ UNCHANGED <<scheduled, orders, call, service, singleton>>

\* one evaluation of the while condition and, when it holds, one iteration:
\* the query (taking t seconds, answering or raising), the two success
\* returns, or the sleep of check_interval seconds on either path
wait_for_orders_completion ==
    /\ fw.active
    /\ fw.result = "none"
    /\ IF ~(fw.elapsed < fw.max_wait_time)
       THEN fw' = [fw EXCEPT !.result = "false"]
       ELSE \E query_ok \in BOOLEAN, t \in 0..MaxQueryTime :
               LET asked == [fw EXCEPT !.polls = @ + 1,
                                       !.elapsed = @ + t,
                                       !.query_time = @ + t,
                                       !.last = IF query_ok THEN "ok"
                                                ELSE "raise"]
               IN  IF query_ok /\ AllTraded(orders)
                   THEN fw' = [asked EXCEPT !.result = "true"]
                   ELSE fw' = [asked EXCEPT
                                  !.sleeps = @ + 1,
                                  !.elapsed = @ + fw.check_interval,
                                  !.failed = IF query_ok THEN @ ELSE @ + 1]
    /\ UNCHANGED <<scheduled, orders, call, service, singleton>>

\* the exchange fills part or all of a pending order while the wait runs
GatewayFill ==
    /\ fw.active
    /\ fw.result = "none"
    /\ \E i \in 1..Len(orders) :
          /\ orders[i].traded_volume < orders[i].order_volume
          /\ \E v \in {orders[i].order_volume \div 2, orders[i].order_volume} :
                /\ v > orders[i].traded_volume
                /\ orders' = [orders EXCEPT ![i].traded_volume = v]
    /\ UNCHANGED <<scheduled, unit>>

WaitNext ==
    \/ wait_for_orders_completion
    \/ GatewayFill

WaitSpec == WaitInit /\ [][WaitNext]_vars

\* the calling thread keeps executing the loop
WaitFairSpec == WaitSpec /\ WF_vars(wait_for_orders_completion)

\* the least whole number of intervals that covers the ceiling
Ceil(a, b) == (a + b - 1) \div b

\* C12: the fill-wait always returns; it never issues more than
\* ceil(ceiling / interval) polls; when it times out with the interval
\* dividing the ceiling and queries taking no time it has issued exactly
\* ceiling / interval polls (10 and 2 give 5); and it returns true only on
\* a fully traded list, so a list never fully filled ends in the timeout.
C12_WaitTerminates ==
    /\ <>(fw.result # "none")
    /\ [](fw.polls <= Ceil(fw.max_wait_time, fw.check_interval))
    /\ [](fw.result = "false" /\ fw.query_time = 0
              /\ fw.max_wait_time % fw.check_interval = 0
           => fw.polls = fw.max_wait_time \div fw.check_interval)
    /\ [](fw.result = "true" => AllTraded(orders))

C12_Witness ==
    /\ fw.result = "false"
    /\ fw.max_wait_time = 10
    /\ fw.check_interval = 2
    /\ fw.query_time = 0
    /\ fw.polls = 5
    /\ ~AllTraded(orders)

\* C13: with a positive ceiling the first thing the wait does is poll; a
\* poll that answers with an empty list or with every order's
\* traded_volume equal to its order_volume returns true at once, without
\* sleeping, on the first poll as on any later one.
C13_SuccessAtOnce ==
    /\ [][fw.polls = 0 /\ fw.max_wait_time > 0 /\ fw' # fw
            => fw'.polls = 1]_vars
    /\ [][/\ fw'.polls = fw.polls + 1
          /\ fw'.last = "ok"
          /\ \/ orders = <<>>
             \/ \A i \in 1..Len(orders) :
                   orders[i].traded_volume = orders[i].order_volume
          => /\ fw'.result = "true"
             /\ fw'.sleeps = fw.sleeps
             /\ fw'.elapsed = fw.elapsed + (fw'.query_time - fw.query_time)]_vars
    /\ [](fw.result = "true" /\ fw.polls = 1
              => fw.sleeps = 0 /\ fw.elapsed = fw.query_time)

C13_Witness ==
    /\ fw.result = "true"
    /\ fw.polls = 1
    /\ fw.sleeps = 0
    /\ fw.max_wait_time > 0
    /\ orders # <<>>

MaxHalfLots == 6
SplitVolumes ==
    {v \in {k * (max_per_order \div 2) + j : k \in 0..MaxHalfLots,
                                              j \in {-1, 0, 1}} : v > 0}
        \cup {80000, 250000}

\* share quotients n/d passed to _round_to_hundred
MaxQuotient == 700
MaxDenominator == 3

\* target sets, assets and ticks passed to calculate_target_volume
Quarter == [num |-> 1, den |-> 4]
HelperTargets ==
    TargetChoices \cup
    { << [stock_code |-> MainB, weight |-> Half],
         [stock_code |-> StarA, weight |-> Quarter],
         [stock_code |-> OtherC, weight |-> Quarter] >> }
HelperAssets == Assets \cup {1, 1234567}
HelperTicks == TickChoices \cup {Tick(7, 9, 5), Tick(333, 340, 320)}
HelperQuotes(stock_list) ==
    UNION {[S -> HelperTicks] : S \in SUBSET stock_list}

\* sell_list / buy_list values handed to a submission loop
IntentVolumes == {100, max_per_order, max_per_order + 100, 250000}
IntentLists ==
    { <<[stock_code |-> s, volume |-> v]>> : s \in Stocks, v \in IntentVolumes }
    \cup
    { <<[stock_code |-> StarA, volume |-> v], [stock_code |-> s, volume |-> w]>> :
          s \in {MainB, OtherC}, v \in IntentVolumes, w \in IntentVolumes }

HelperInit ==
    /\ Parked
    /\ orders = <<>>
    /\ fw = NoWait
    /\ ServiceIdle
    /\ \/ \E volume \in SplitVolumes :
             call = [op |-> "split", in |-> <<volume>>, out |-> <<>>,
                     done |-> FALSE]
       \/ \E n \in 0..MaxQuotient, d \in 1..MaxDenominator :
             call = [op |-> "round", in |-> <<n, d>>, out |-> <<>>,
                     done |-> FALSE]
       \/ \E target_position \in HelperTargets, total_asset \in HelperAssets,
             tick_ok \in BOOLEAN :
             \E realtime_data \in IF tick_ok
                                  THEN HelperQuotes(Keys(target_position))
                                  ELSE {<<>>} :
                call = [op |-> "compute",
                        in |-> <<target_position, total_asset, tick_ok,
                                 realtime_data>>,
                        out |-> <<>>, done |-> FALSE]
       \/ \E side \in {"SELL", "BUY"}, list \in IntentLists :
             \E realtime_data \in QuoteAnswers(StockList(list)) :
                call = [op |-> "submit", in |-> <<side, list, realtime_data>>,
                        out |-> <<>>, done |-> FALSE]

\* the call returns: out holds the return value
Return(value) ==
    /\ call' = [call EXCEPT !.out = <<value>>, !.done = TRUE]
    /\ UNCHANGED <<scheduled, orders, fw, service, singleton>>

CallSplit ==
    /\ call.op = "split"
    /\ ~call.done
    /\ Return(split_order_volume(call.in[1]))

CallRound ==
    /\ call.op = "round"
    /\ ~call.done
    /\ Return(round_to_hundred(call.in[1], call.in[2]))

CallCompute ==
    /\ call.op = "compute"
    /\ ~call.done
    /\ Return(calculate_target_volume(call.in[1], call.in[2], call.in[3],
                                      call.in[4]))

\* the orders the submission loop of one phase hands to order_stock
CallSubmit ==
    /\ call.op = "submit"
    /\ ~call.done
    /\ Return(SubmitLoop(call.in[1], call.in[2], call.in[3], 1,
                         Len(call.in[2])))

HelperNext ==
    \/ CallSplit
    \/ CallRound
    \/ CallCompute
    \/ CallSubmit

HelperSpec == HelperInit /\ [][HelperNext]_vars

\* the orders of order_list placed for stock_code, in submission order
OrdersFor(order_list, stock_code) ==
    SelectSeq(order_list, LAMBDA o : o.stock_code = stock_code)

\* the sum of a sequence of numbers
RECURSIVE SumOf(_)
SumOf(s) == IF s = <<>> THEN 0 ELSE Head(s) + SumOf(Tail(s))

OrderVolumes(order_list) ==
    [i \in 1..Len(order_list) |-> order_list[i].order_volume]

\* the chunks of at most 100000 shares, the last one carrying the remainder
IsChunking(parts, volume) ==
    /\ Len(parts) = Ceil(volume, 100000)
    /\ \A k \in 1..(Len(parts) - 1) : parts[k] = 100000
    /\ parts[Len(parts)] = volume - 100000 * (Len(parts) - 1)

\* C15: an intent whose quote is present with a non-zero limit price is
\* submitted as one order per chunk of at most 100000 shares when the code
\* starts with 688 and ends with SH, and as exactly one order of the full
\* volume otherwise, whatever its size; the volumes submitted for the stock
\* sum to the intent volume and every order carries the same limit price,
\* the fifth-level bid for sells and the fifth-level ask for buys.  An
\* intent without a usable quote is not submitted.
C15_SubmissionPerIntent ==
    (call.op = "submit" /\ call.done) =>
        LET side == call.in[1]
            list == call.in[2]
            realtime_data == call.in[3]
            submitted == call.out[1]
        IN  \A i \in 1..Len(list) :
               LET stock_code == list[i].stock_code
                   volume == list[i].volume
                   mine == OrdersFor(submitted, stock_code)
                   quoted == stock_code \in DOMAIN realtime_data
                   price == IF side = "SELL"
                            THEN realtime_data[stock_code].bidPrice[5]
                            ELSE realtime_data[stock_code].askPrice[5]
               IN  IF quoted /\ price # 0
                   THEN /\ \A k \in 1..Len(mine) :
                              /\ mine[k].price = price
                              /\ mine[k].side = side
                              /\ mine[k].traded_volume = 0
                        /\ SumOf(OrderVolumes(mine)) = volume
                        /\ IF stock_code[1] = "688" /\ stock_code[3] = "SH"
                           THEN IsChunking(OrderVolumes(mine), volume)
                           ELSE OrderVolumes(mine) = <<volume>>
                   ELSE mine = <<>>

C15_Witness ==
    /\ call.op = "submit"
    /\ call.done
    /\ call.in[1] = "BUY"
    /\ OrderVolumes(call.out[1]) = <<100000, 100000, 50000, 250000>>
    /\ call.out[1][1].price = 105
    /\ call.out[1][4].stock_code = OtherC

\* C16: for a positive volume the split is a non-empty list of positive
\* parts that sum to the volume, none above 100000 and all but possibly
\* the last equal to 100000; a volume of at most 100000 gives the list of
\* that volume alone.
C16_SplitParts ==
    (call.op = "split" /\ call.done /\ call.in[1] > 0) =>
        LET volume == call.in[1]
            parts == call.out[1]
        IN  /\ Len(parts) >= 1
            /\ \A k \in 1..Len(parts) : parts[k] > 0 /\ parts[k] <= 100000
            /\ \A k \in 1..(Len(parts) - 1) : parts[k] = 100000
            /\ SumOf(parts) = volume
            /\ (volume <= 100000 => parts = <<volume>>)

C16_Witness ==
    /\ call.op = "split"
    /\ call.done
    /\ call.in[1] = 250000
    /\ call.out[1] = <<100000, 100000, 50000>>

\* the weights of a target set sum to 1
RECURSIVE WeightNum(_, _)
WeightNum(target_position, common) ==
    IF target_position = <<>> THEN 0
    ELSE Head(target_position).weight.num
             * (common \div Head(target_position).weight.den)
         + WeightNum(Tail(target_position), common)

SumsToOne(target_position) == WeightNum(target_position, 4) = 4

\* C17: for target weights summing to 1, a positive total asset and
\* positive quote prices, every value of the plan calculate_target_volume
\* returns is a non-negative integer multiple of 100.
C17_PlanInHundreds ==
    (/\ call.op = "compute"
     /\ call.done
     /\ SumsToOne(call.in[1])
     /\ call.in[2] > 0
     /\ \A s \in DOMAIN call.in[4] : call.in[4][s].askPrice[3] > 0) =>
        LET plan == call.out[1]
        IN  \A i \in 1..Len(plan) :
               /\ plan[i].val \in Nat
               /\ plan[i].val % 100 = 0

C17_Witness ==
    /\ call.op = "compute"
    /\ call.done
    /\ call.in[2] = 1234567
    /\ Len(call.out[1]) = 3
    /\ \A s \in DOMAIN call.in[4] : call.in[4][s].askPrice[3] = 7
    /\ \A i \in 1..3 : call.out[1][i].val > 0

\* C18: the share quotient is rounded to the nearest 100 with ties away
\* from zero: a quotient of exactly 100k + 50 gives 100(k + 1) for even
\* and odd k alike (50 -> 100, 150 -> 200, 250 -> 300), any other quotient
\* the nearest multiple of 100.
C18_HalfUp ==
    (call.op = "round" /\ call.done) =>
        LET n == call.in[1]
            d == call.in[2]
        IN  call.out[1] = 100 * ((n + 50 * d) \div (100 * d))

\* the target rows calculate_target_volume can price from realtime_data
Priced(target_position, realtime_data) ==
    {i \in 1..Len(target_position) :
        /\ target_position[i].stock_code \in DOMAIN realtime_data
        /\ realtime_data[target_position[i].stock_code].askPrice[3] # 0}

\* C19: when the batch quote call raises, calculate_target_volume returns
\* the empty plan and no stock gets a value; when it answers, a stock with
\* no quote or with a zero third-level ask is left out and every other
\* stock is kept, with a volume within 50 shares of its share quotient.
C19_QuoteFailureVsSkip ==
    (call.op = "compute" /\ call.done) =>
        LET target_position == call.in[1]
            total_asset == call.in[2]
            tick_ok == call.in[3]
            realtime_data == call.in[4]
            plan == call.out[1]
        IN  IF ~tick_ok
            THEN plan = <<>>
            ELSE /\ Keys(plan) =
                      {target_position[i].stock_code :
                          i \in Priced(target_position, realtime_data)}
                 /\ Len(plan) =
                      Cardinality(Priced(target_position, realtime_data))
                 /\ \A i \in Priced(target_position, realtime_data) :
                       LET row == target_position[i]
                           price == realtime_data[row.stock_code].askPrice[3]
                           volume == Get(plan, row.stock_code, -1)
                           scaled == volume * row.weight.den * price
                           exact == total_asset * row.weight.num
                       IN  /\ scaled - exact <= 50 * row.weight.den * price
                           /\ exact - scaled <= 50 * row.weight.den * price

C19_Witness ==
    /\ call.op = "compute"
    /\ call.done
    /\ call.in[3]
    /\ Len(call.in[1]) = 3
    /\ MainB \notin DOMAIN call.in[4]
    /\ StarA \in DOMAIN call.in[4]
    /\ call.in[4][StarA].askPrice[3] = 0
    /\ Keys(call.out[1]) = {OtherC}
    /\ call.out[1][1].val > 0

\* C20: the value calculate_target_volume returns tells the fatal quote
\* failure from the valid plan in which every stock was skipped: a call
\* whose batch quote raised never returns what a call with the same
\* arguments returns when the quote answers and no stock can be priced.
C20_FailureDistinctFromEmptyPlan ==
    (call.op = "compute" /\ call.done /\ ~call.in[3]) =>
        \A realtime_data \in HelperQuotes(Keys(call.in[1])) :
           Priced(call.in[1], realtime_data) = {} =>
              call.out[1] # calculate_target_volume(call.in[1], call.in[2],
                                                    TRUE, realtime_data)

(***************************************************************************)
(* TradingCalendar.  A date is a record (year, month, day); a date string  *)
(* "%Y-%m-%d" is the tuple <<year, month, day>>, a month string "%Y-%m"    *)
(* the tuple <<year, month>>, the empty string the empty tuple and any     *)
(* other text a tuple of one element.  A datetime is a record with an hour *)
(* and its isoformat() the tuple of its four fields.  The value None       *)
(* passed for a date is the record NoDate.                                 *)
(***************************************************************************)
Date(year, month, day) == [year |-> year, month |-> month, day |-> day]
NoDate == Date(0, 0, 0)

IsLeap(year) == (year % 4 = 0 /\ year % 100 # 0) \/ year % 400 = 0

DaysInMonth(year, month) ==
    IF month = 2 THEN (IF IsLeap(year) THEN 29 ELSE 28)
    ELSE IF month \in {4, 6, 9, 11} THEN 30 ELSE 31

\* date + timedelta(days=1)
NextDay(d) ==
    IF d.day < DaysInMonth(d.year, d.month) THEN Date(d.year, d.month, d.day + 1)
    ELSE IF d.month < 12 THEN Date(d.year, d.month + 1, 1)
    ELSE Date(d.year + 1, 1, 1)

\* date.toordinal(), counted from 1 January 2024 (a Monday) as day 0
RECURSIVE DaysBeforeMonth(_, _)
DaysBeforeMonth(year, month) ==
    IF month = 1 THEN 0
    ELSE DaysBeforeMonth(year, month - 1) + DaysInMonth(year, month - 1)

RECURSIVE DaysBeforeYear(_)
DaysBeforeYear(year) ==
    IF year <= 2024 THEN 0
    ELSE DaysBeforeYear(year - 1) + (IF IsLeap(year - 1) THEN 366 ELSE 365)

toordinal(d) == DaysBeforeYear(d.year) + DaysBeforeMonth(d.year, d.month) + d.day - 1

\* date.weekday(): Monday is 0, Saturday 5, Sunday 6
weekday(d) == toordinal(d) % 7

\* date.strftime("%Y-%m-%d"), date.strftime("%Y-%m") and f"{year:04d}-{month:02d}"
strftime_day(d) == <<d.year, d.month, d.day>>
strftime_month(d) == <<d.year, d.month>>
month_str_of(year, month) == <<year, month>>

\* datetime.strptime(s, "%Y-%m-%d") accepts s: three fields naming a day
\* that exists
Parses(s) ==
    /\ Len(s) = 3
    /\ s[2] \in 1..12
    /\ s[3] \in 1..DaysInMonth(s[1], s[2])

strptime_day(s) == Date(s[1], s[2], s[3])

\* datetime(year, month, 1): midnight of the first day of a month
Midnight(year, month) == [year |-> year, month |-> month, day |-> 1, hour |-> 0]

isoformat(t) == <<t.year, t.month, t.day, t.hour>>
fromisoformat(s) == [year |-> s[1], month |-> s[2], day |-> s[3], hour |-> s[4]]

\* a >= b on datetimes
DatetimeGE(a, b) ==
    \/ a.year > b.year
    \/ a.year = b.year /\ a.month > b.month
    \/ a.year = b.year /\ a.month = b.month /\ a.day > b.day
    \/ a.year = b.year /\ a.month = b.month /\ a.day = b.day /\ a.hour >= b.hour

\* utils.holiday_constants: the static holiday and compensatory-workday
\* tables.  26 January 2025 is a Sunday and 8 February 2025 a Saturday.
holidays ==
    {Date(2025, 1, 1), Date(2025, 1, 28), Date(2025, 1, 29),
     Date(2025, 1, 30), Date(2025, 1, 31), Date(2025, 2, 3), Date(2025, 2, 4)}
workdays == {Date(2025, 1, 26), Date(2025, 2, 8)}

\* a static policy that knows weekends only
is_trading_day_fallback_weekends_only(check_date) == weekday(check_date) < 5

\* _is_trading_day_fallback(check_date)
is_trading_day_fallback(check_date) ==
    IF weekday(check_date) >= 5 THEN FALSE
    ELSE IF check_date \in holidays THEN FALSE
    ELSE IF check_date \in workdays THEN TRUE
    ELSE TRUE

(***************************************************************************)
(* The exchange calendar source (requests.get on the month list).  A       *)
(* response is a timeout, another exception, or an HTTP answer with a      *)
(* status code and, as its JSON "data", one record per day of the month.   *)
(***************************************************************************)
\* the month list of the exchange: jybz "1" on weekdays the exchange is open
MonthData(year, month, closed) ==
    [d \in 1..DaysInMonth(year, month) |->
        [jyrq |-> strftime_day(Date(year, month, d)),
         jybz |-> IF weekday(Date(year, month, d)) < 5
                     /\ Date(year, month, d) \notin closed
                  THEN "1" ELSE "0"]]

\* what the source may do: time out, refuse, answer with the calendar,
\* answer with a calendar in which 31 December 2024 has been closed, or
\* answer with a day record whose date text is not a date
RemoteWorlds == {"timeout", "refused", "real", "revised", "garbled"}

\* the months the source is asked about, and its three month lists for
\* each of them
KnownMonths == {<<2024, 11>>, <<2024, 12>>, <<2025, 1>>, <<2025, 2>>}

RealData == [m \in KnownMonths |-> MonthData(m[1], m[2], holidays)]

RevisedData ==
    [m \in KnownMonths |->
        MonthData(m[1], m[2], holidays \cup {Date(2024, 12, 31)})]

GarbledData ==
    [m \in KnownMonths |->
        [RealData[m] EXCEPT ![20].jyrq = <<"?">>, ![20].jybz = "1"]]

Response(world, year, month) ==
    IF world = "timeout" THEN [kind |-> world]
    ELSE IF world = "refused"
    THEN [kind |-> "http", status_code |-> 503, data |-> <<>>]
    ELSE [kind |-> "http", status_code |-> 200,
          data |-> IF world = "real" THEN RealData[<<year, month>>]
                   ELSE IF world = "revised"
                   THEN RevisedData[<<year, month>>]
                   ELSE GarbledData[<<year, month>>]]

\* what the source does at the two requests of a preload
WorldPairs ==
    {<<w, w>> : w \in RemoteWorlds}
        \cup {<<"real", "timeout">>, <<"timeout", "real">>}

\* the service's mutable state handed from step to step inside one call:
\* the two caches, the cache file and the months fetched so far
ServiceState ==
    [days |-> trading_days_cache, months |-> monthly_cache,
     file |-> cache_file, fetches |-> <<>>]

\* _save_cache_to_file; disk_ok is FALSE when writing raises
save_cache_to_file(st, disk_ok) ==
    IF disk_ok
    THEN [st EXCEPT !.file = <<[valid |-> TRUE, months |-> st.months]>>]
    ELSE st

\* _fetch_and_cache_month: the loop over data.get("data", []).  A record
\* counts when its jybz is "1" and its jyrq is not empty; the loop stops at
\* the first such record strptime rejects (ok is FALSE then), and what it
\* appended and added before that stays.
Counts(day_data) == day_data.jybz = "1" /\ day_data.jyrq # <<>>

ParseLoop(data, days) ==
    LET bad == {i \in 1..Len(data) :
                   Counts(data[i]) /\ ~Parses(data[i].jyrq)}
        stop == IF bad = {} THEN Len(data) + 1
                ELSE CHOOSE i \in bad : \A o \in bad : i <= o
        taken == SelectSeq(SubSeq(data, 1, stop - 1), Counts)
    IN  [ok |-> bad = {},
         trading_days |-> [k \in 1..Len(taken) |-> strptime_day(taken[k].jyrq)],
         days |-> days \cup {strptime_day(taken[k].jyrq) : k \in 1..Len(taken)}]

\* an expiry computed without the rollover of December
next_month_same_year(year, month) == Midnight(year, month + 1)

\* the expiry of a fetched month: the first day of the next month
next_month(year, month) ==
    IF month = 12 THEN Midnight(year + 1, 1) ELSE Midnight(year, month + 1)

\* _fetch_and_cache_month(year, month) against the response of the source:
\* the state it leaves and the value it returns
fetch_and_cache_month(st, year, month, world, disk_ok) ==
    LET month_str == month_str_of(year, month)
        response == Response(world, year, month)
        asked == [st EXCEPT !.fetches = Append(@, month_str)]
    IN  IF response.kind # "http" THEN [st |-> asked, ret |-> FALSE]
        ELSE IF response.status_code # 200 THEN [st |-> asked, ret |-> FALSE]
        ELSE LET parsed == ParseLoop(response.data, asked.days)
                 entry == [trading_days |->
                               [k \in 1..Len(parsed.trading_days) |->
                                   strftime_day(parsed.trading_days[k])],
                           expires_at |-> isoformat(next_month(year, month))]
             IN  IF ~parsed.ok
                 THEN [st |-> [asked EXCEPT !.days = parsed.days],
                       ret |-> FALSE]
                 ELSE [st |-> save_cache_to_file(
                                 [asked EXCEPT
                                     !.days = parsed.days,
                                     !.months = (month_str :> entry) @@ @],
                                 disk_ok),
                       ret |-> TRUE]

\* _is_cache_expired(year_month) at time t
is_cache_expired(st, year_month, t) ==
    IF year_month \notin DOMAIN st.months THEN TRUE
    ELSE LET expires_at_str == st.months[year_month].expires_at
         IN  IF expires_at_str = <<>> THEN TRUE
             ELSE IF Len(expires_at_str) # 4 THEN TRUE
             ELSE DatetimeGE(t, fromisoformat(expires_at_str))

\* is_trading_day whose except clause answers True
is_trading_day_fail_open(st, check_date, t, world, disk_ok) == IF check_date = NoDate /\ check_date \notin st.days THEN [st |-> st, ret |-> TRUE, caught |-> TRUE] ELSE [st |-> st, ret |-> check_date \in st.days \/ is_trading_day_fallback(check_date), caught |-> FALSE]

\* is_trading_day that takes a month entry as the last word on its month
is_trading_day_entry_decides(st, check_date, t, world, disk_ok) ==
    IF check_date \in st.days
    THEN [st |-> st, ret |-> TRUE, caught |-> FALSE]
    ELSE IF check_date = NoDate
    THEN [st |-> st, ret |-> FALSE, caught |-> TRUE]
    ELSE LET year_month == strftime_month(check_date)
             st1 == IF year_month \notin DOMAIN st.months
                       \/ is_cache_expired(st, year_month, t)
                    THEN fetch_and_cache_month(st, check_date.year,
                                               check_date.month, world,
                                               disk_ok).st
                    ELSE st
         IN  [st |-> st1,
              ret |-> IF year_month \in DOMAIN st1.months
                      THEN check_date \in st1.days
                      ELSE is_trading_day_fallback(check_date),
              caught |-> FALSE]

\* is_trading_day that asks the source before it looks into the set
is_trading_day_fetch_first(st, check_date, t, world, disk_ok) ==
    IF check_date = NoDate THEN [st |-> st, ret |-> FALSE, caught |-> TRUE]
    ELSE LET st1 == fetch_and_cache_month(st, check_date.year,
                                          check_date.month, world,
                                          disk_ok).st
         IN  [st |-> st1,
              ret |-> check_date \in st1.days
                        \/ is_trading_day_fallback(check_date),
              caught |-> FALSE]

\* is_trading_day(check_date) at time t: the state it leaves, the value it
\* returns, and whether the except clause of the function was taken
is_trading_day(st, check_date, t, world, disk_ok) ==
    IF check_date \in st.days
    THEN [st |-> st, ret |-> TRUE, caught |-> FALSE]
    ELSE IF check_date = NoDate
    THEN [st |-> st, ret |-> FALSE, caught |-> TRUE]
    ELSE LET year_month == strftime_month(check_date)
             st1 == IF year_month \notin DOMAIN st.months
                       \/ is_cache_expired(st, year_month, t)
                    THEN fetch_and_cache_month(st, check_date.year,
                                               check_date.month, world,
                                               disk_ok).st
                    ELSE st
         IN  IF check_date \in st1.days
             THEN [st |-> st1, ret |-> TRUE, caught |-> FALSE]
             ELSE [st |-> st1, ret |-> is_trading_day_fallback(check_date),
                   caught |-> FALSE]

\* get_next_trading_day: max_search_days
max_search_days == 30

\* get_next_trading_day: the for loop with `left` iterations to go;
\* examined is history: the dates passed to is_trading_day and the answers.
\* The value returned is <<>> for None and <<date>> for a date.
RECURSIVE SearchLoop(_, _, _, _, _, _, _, _, _)
SearchLoop(st, current_date, found_count, skip_days, left, examined, t, world, disk_ok) ==
    IF left = 0 THEN [st |-> st, ret |-> <<>>, examined |-> examined]
    ELSE LET next_date == NextDay(current_date)
             step(answer) ==
                 LET seen == Append(examined, [date |-> next_date,
                                               answer |-> answer.ret])
                 IN  IF answer.ret /\ found_count + 1 >= skip_days
                     THEN [st |-> answer.st, ret |-> <<next_date>>,
                           examined |-> seen]
                     ELSE SearchLoop(answer.st, next_date,
                                     IF answer.ret THEN found_count + 1
                                     ELSE found_count,
                                     skip_days, left - 1, seen, t, world,
                                     disk_ok)
         IN  CHOOSE found \in
                 {step(answer) :
                     answer \in {is_trading_day(st, next_date, t, world,
                                                disk_ok)}} : TRUE

\* a search that stops at the first trading day whatever skip_days is
get_next_trading_day_first_hit(st, from_date, skip_days, t, world, disk_ok) == SearchLoop(st, from_date, 0, 1, max_search_days, <<>>, t, world, disk_ok)

get_next_trading_day(st, from_date, skip_days, t, world, disk_ok) ==
    SearchLoop(st, from_date, 0, skip_days, max_search_days, <<>>, t, world,
               disk_ok)

\* _preload_current_and_next_month at time t; the source may behave
\* differently for the two requests
preload_current_and_next_month(st, t, world1, world2, disk_ok) ==
    LET st1 == fetch_and_cache_month(st, t.year, t.month, world1, disk_ok).st
        next_year == IF t.month = 12 THEN t.year + 1 ELSE t.year
        next_mon == IF t.month = 12 THEN 1 ELSE t.month + 1
    IN  fetch_and_cache_month(st1, next_year, next_mon, world2, disk_ok).st

\* the keys of a month dict in ascending order
RECURSIVE MonthsInOrder(_)
MonthsInOrder(S) ==
    IF S = {} THEN <<>>
    ELSE LET first == CHOOSE m \in S :
                         \A o \in S : m[1] * 12 + m[2] <= o[1] * 12 + o[2]
         IN  <<first>> \o MonthsInOrder(S \ {first})

\* _load_cache_from_file: the loop over the date strings of one month; it
\* stops at the first string strptime rejects (ok is FALSE then)
LoadDates(strs, days) ==
    LET bad == {k \in 1..Len(strs) : ~Parses(strs[k])}
        stop == IF bad = {} THEN Len(strs) + 1
                ELSE CHOOSE k \in bad : \A o \in bad : k <= o
    IN  [ok |-> bad = {},
         days |-> days \cup {strptime_day(strs[k]) : k \in 1..(stop - 1)}]

\* _load_cache_from_file: the loop over the months
RECURSIVE LoadMonths(_, _, _, _)
LoadMonths(months, order, i, days) ==
    IF i > Len(order) THEN days
    ELSE LET loaded == LoadDates(months[order[i]].trading_days, days)
         IN  IF loaded.ok THEN LoadMonths(months, order, i + 1, loaded.days)
             ELSE loaded.days

\* _load_cache_from_file: nothing happens when the file is absent or is
\* not JSON; otherwise the month cache is taken from it and the set rebuilt
load_cache_from_file(st) ==
    IF st.file = <<>> THEN st
    ELSE IF ~st.file[1].valid THEN st
    ELSE LET months == st.file[1].months
         IN  [st EXCEPT !.months = months,
                        !.days = LoadMonths(months,
                                            MonthsInOrder(DOMAIN months),
                                            1, {})]

\* refresh_calendar at time t: the state it leaves and the value it returns
refresh_calendar(st, t, world1, world2, disk_ok) ==
    LET cleared == [st EXCEPT !.days = {}, !.months = <<>>]
        loaded == preload_current_and_next_month(cleared, t, world1, world2,
                                                 disk_ok)
    IN  [st |-> save_cache_to_file(loaded, disk_ok), ret |-> TRUE]

\* __init__ on a fresh instance at time t
initialize(st, t, world1, world2, disk_ok) ==
    LET reset == [st EXCEPT !.days = {}, !.months = <<>>]
    IN  preload_current_and_next_month(load_cache_from_file(reset), t,
                                       world1, world2, disk_ok)

(***************************************************************************)
(* The calendar service used on its own by one thread: constructed once,   *)
(* then queried and refreshed while the clock moves on.                    *)
(***************************************************************************)
\* the moments the clock passes through: the last morning of 2024 and the
\* midnight that starts 2025
ClockTimes ==
    << [year |-> 2024, month |-> 12, day |-> 31, hour |-> 9],
       [year |-> 2025, month |-> 1, day |-> 1, hour |-> 0] >>

\* the caches of a service that has nothing cached
EmptyService == [days |-> {}, months |-> <<>>, file |-> <<>>, fetches |-> <<>>]

\* cache files found at construction: none, one that is not JSON, the one
\* a run of the service left on 29 November 2024, and one whose December
\* entry holds a text that is not a date
CacheFiles ==
    { <<>>,
      <<[valid |-> FALSE, months |-> <<>>]>>,
      initialize(EmptyService,
                 [year |-> 2024, month |-> 11, day |-> 29, hour |-> 9],
                 "real", "real", TRUE).file,
      <<[valid |-> TRUE,
         months |-> (month_str_of(2024, 12) :>
                        [trading_days |-> << <<2024, 12, 30>>, <<"?">>,
                                             <<2024, 12, 31>> >>,
                         expires_at |-> isoformat(Midnight(2025, 1))])]>> }

\* dates asked about: a Saturday, the last trading day of the year, a
\* weekday holiday, a Sunday of the compensatory-workday table, a plain
\* weekday, and None
ProbeDates ==
    {Date(2024, 12, 28), Date(2024, 12, 31), Date(2025, 1, 1),
     Date(2025, 1, 26), Date(2025, 1, 27), NoDate}

\* arguments of get_next_trading_day
FromDates == {Date(2024, 12, 27), Date(2025, 1, 24)}
MaxSkip == 25
SkipChoices == {1, 2, MaxSkip}

CalInit ==
    /\ Parked
    /\ orders = <<>>
    /\ call = NoCall
    /\ fw = NoWait
    /\ singleton = [active |-> FALSE]
    /\ trading_days_cache = {}
    /\ monthly_cache = <<>>
    /\ cache_file \in CacheFiles
    /\ clock = ClockTimes[1]
    /\ last_call = [op |-> "none"]

\* a call leaves the service in state st and is recorded as done
Leave(st, done) ==
    /\ trading_days_cache' = st.days
    /\ monthly_cache' = st.months
    /\ cache_file' = st.file
    /\ last_call' = done
    /\ UNCHANGED <<scheduled, orders, call, fw, singleton, clock>>

\* TradingCalendar(): the first construction
Construct ==
    /\ last_call.op = "none"
    /\ \E worlds \in WorldPairs :
          \E st \in {initialize(ServiceState, clock, worlds[1], worlds[2],
                                 TRUE)} :
              Leave(st, [op |-> "init", fetches |-> st.fetches])

\* is_trading_day(check_date); repeat tells that the call before this one
\* was is_trading_day with the same date
IsTradingDay ==
    /\ last_call.op # "none"
    /\ \E check_date \in ProbeDates, world \in RemoteWorlds :
          \E r \in {is_trading_day(ServiceState, check_date, clock, world,
                                    TRUE)} :
              Leave(r.st, [op |-> "is_trading_day", date |-> check_date,
                           ret |-> r.ret, caught |-> r.caught,
                           fetches |-> r.st.fetches,
                           repeat |-> /\ last_call.op = "is_trading_day"
                                      /\ last_call.date = check_date])

GetNextTradingDay ==
    /\ last_call.op = "init"
    /\ \E from_date \in FromDates, skip_days \in SkipChoices,
          world \in RemoteWorlds :
          \E r \in {get_next_trading_day(ServiceState, from_date,
                                          skip_days, clock, world, TRUE)} :
              Leave(r.st, [op |-> "get_next_trading_day",
                           from_date |-> from_date, skip_days |-> skip_days,
                           ret |-> r.ret, examined |-> r.examined,
                           fetches |-> r.st.fetches])

RefreshCalendar ==
    /\ last_call.op # "none"
    /\ \E worlds \in WorldPairs, disk_ok \in BOOLEAN :
          \E r \in {refresh_calendar(ServiceState, clock, worlds[1],
                                      worlds[2], disk_ok)} :
              Leave(r.st, [op |-> "refresh_calendar", ret |-> r.ret,
                           fetches |-> r.st.fetches])

\* time passes between two calls
ClockAdvance ==
    /\ last_call.op # "none"
    /\ \E k \in 1..(Len(ClockTimes) - 1) :
          /\ clock = ClockTimes[k]
          /\ clock' = ClockTimes[k + 1]
    /\ last_call' = [op |-> "tick"]
    /\ UNCHANGED <<scheduled, orders, call, fw, singleton,
                   trading_days_cache, monthly_cache, cache_file>>

CalNext ==
    \/ Construct
    \/ IsTradingDay
    \/ RefreshCalendar
    \/ ClockAdvance

CalSpec == CalInit /\ [][CalNext]_vars

\* get_next_trading_day called on a service that has just been constructed
SearchInit ==
    /\ CalInit
    /\ cache_file \in {<<>>, initialize(EmptyService,
                                        [year |-> 2024, month |-> 11,
                                         day |-> 29, hour |-> 9],
                                        "real", "real", TRUE).file}

SearchNext ==
    \/ Construct
    \/ GetNextTradingDay

SearchSpec == SearchInit /\ [][SearchNext]_vars

(***************************************************************************)
(* Claims about the calendar service.                                      *)
(***************************************************************************)
\* C21: is_trading_day never raises: every call returns a Boolean, whatever
\* the date, the caches, the cache file and the remote source were, and a
\* call whose except clause was taken (an internal step raised outside the
\* fetch) returned false.
C21_NeverRaises ==
    last_call.op = "is_trading_day" =>
        /\ last_call.ret \in BOOLEAN
        /\ last_call.caught => last_call.ret = FALSE

\* a call with a check_date that is no date: the except clause answered
C21_Witness ==
    /\ last_call.op = "is_trading_day"
    /\ last_call.date = NoDate
    /\ last_call.caught
    /\ last_call.ret = FALSE

\* the month entry of date d is missing, or now >= its expires_at
NoFreshEntry(d) ==
    \/ strftime_month(d) \notin DOMAIN monthly_cache
    \/ DatetimeGE(clock,
                  fromisoformat(monthly_cache[strftime_month(d)].expires_at))

\* C22: is_trading_day(d) resolves in tier order and short-circuits: with d
\* in the in-memory set it answers true and fetches nothing, even when the
\* month entry of d is expired; otherwise it fetches the month of d exactly
\* once if the month has no entry or the entry is expired and not at all
\* if it has a fresh one, then answers true if d is in the set now, and
\* the static policy's answer otherwise.
C22_TierOrder ==
    [][ (last_call'.op = "is_trading_day" /\ last_call'.date # NoDate) =>
          LET d == last_call'.date
          IN  IF d \in trading_days_cache
              THEN last_call'.ret = TRUE /\ last_call'.fetches = <<>>
              ELSE /\ last_call'.fetches =
                        IF NoFreshEntry(d) THEN <<strftime_month(d)>>
                        ELSE <<>>
                   /\ last_call'.ret =
                        IF d \in trading_days_cache' THEN TRUE
                        ELSE is_trading_day_fallback(d) ]_vars

\* 31 December 2024 is answered from the set without a fetch at the
\* midnight at which the entry of December 2024 has expired
C22_Witness ==
    /\ last_call.op = "is_trading_day"
    /\ last_call.date = Date(2024, 12, 31)
    /\ last_call.ret = TRUE
    /\ last_call.fetches = <<>>
    /\ clock = ClockTimes[2]
    /\ month_str_of(2024, 12) \in DOMAIN monthly_cache
    /\ DatetimeGE(clock, fromisoformat(
                             monthly_cache[month_str_of(2024, 12)].expires_at))

\* C23: two successive is_trading_day(d) calls with nothing between them
\* return the same result and together make at most one remote fetch,
\* whatever the date and whatever the remote source does.
C23_Idempotent ==
    [][ (last_call'.op = "is_trading_day" /\ last_call'.repeat) =>
          /\ last_call'.ret = last_call.ret
          /\ Len(last_call.fetches) + Len(last_call'.fetches) <= 1 ]_vars

\* the call just made was answered by the static policy: the date is not
\* in the set and its month has no entry after the call (the fetch failed)
StaticAnswer ==
    /\ last_call.op = "is_trading_day"
    /\ last_call.date # NoDate
    /\ last_call.date \notin trading_days_cache
    /\ strftime_month(last_call.date) \notin DOMAIN monthly_cache

\* C24: under the static fallback a date of the compensatory-workday table
\* is reported as a trading day, also when it is a Saturday or a Sunday.
C24_WorkdayOnWeekend ==
    (StaticAnswer /\ last_call.date \in workdays) => last_call.ret = TRUE

\* C25: under the static fallback a Saturday or Sunday that is not in the
\* compensatory-workday table is reported as no trading day, a date of the
\* holiday table is reported as no trading day even on a weekday, and
\* every other weekday is reported as a trading day.
C25_StaticPolicy ==
    StaticAnswer =>
        LET d == last_call.date
        IN  /\ (weekday(d) >= 5 /\ d \notin workdays) => last_call.ret = FALSE
            /\ d \in holidays => last_call.ret = FALSE
            /\ (weekday(d) < 5 /\ d \notin holidays) => last_call.ret = TRUE

\* New Year's Day 2025, a Wednesday of the holiday table, answered by the
\* static policy
C25_Witness ==
    /\ StaticAnswer
    /\ last_call.date = Date(2025, 1, 1)
    /\ weekday(last_call.date) = 2
    /\ last_call.date \in holidays
    /\ last_call.ret = FALSE

(***************************************************************************)
(* Claims about get_next_trading_day.                                      *)
(***************************************************************************)
\* the date k days after d
RECURSIVE AddDays(_, _)
AddDays(d, k) == IF k = 0 THEN d ELSE AddDays(NextDay(d), k - 1)

\* how many of the dates a search examined were answered as trading days
Found(examined) ==
    Cardinality({k \in 1..Len(examined) : examined[k].answer})

\* C26: get_next_trading_day(from, skip) with skip >= 1 examines only the
\* 30 days from+1 .. from+30, in ascending order; it returns the skip-th
\* of them for which is_trading_day is true, and None exactly when the 30
\* days hold fewer than skip trading days; it always returns.
C26_BoundedSearch ==
    last_call.op = "get_next_trading_day" =>
        LET examined == last_call.examined
            from == last_call.from_date
        IN  /\ Len(examined) <= max_search_days
            /\ \A k \in 1..Len(examined) :
                  examined[k].date = AddDays(from, k)
            /\ last_call.ret \in
                  {<<>>} \cup {<<AddDays(from, k)>> : k \in 1..max_search_days}
            /\ last_call.ret # <<>> =>
                  /\ last_call.ret[1] = examined[Len(examined)].date
                  /\ examined[Len(examined)].answer
                  /\ Found(examined) = last_call.skip_days
            /\ last_call.ret = <<>> <=>
                  /\ Len(examined) = max_search_days
                  /\ Found(examined) < last_call.skip_days

\* from Friday 24 January 2025 the second trading day is 5 February, after
\* the week of the Spring Festival
C26_Witness ==
    /\ last_call.op = "get_next_trading_day"
    /\ last_call.from_date = Date(2025, 1, 24)
    /\ last_call.skip_days = 2
    /\ last_call.ret = <<Date(2025, 2, 5)>>

(***************************************************************************)
(* Claims about the caches of the calendar service.                        *)
(***************************************************************************)
\* the dates named by the trading_days of the month entries
EntryDays ==
    UNION {{strptime_day(monthly_cache[m].trading_days[k]) :
               k \in {i \in 1..Len(monthly_cache[m].trading_days) :
                         Parses(monthly_cache[m].trading_days[i])}} :
           m \in DOMAIN monthly_cache}

\* C27: after any sequence of cache-file loads, fetches (successful, failed
\* or failing part-way through parsing) and refreshes, the in-memory set
\* of trading days is exactly the union of the trading_days of the month
\* entries, so a day that a refetched entry no longer lists is no longer
\* in the set.
C27_SetIsUnionOfEntries ==
    last_call.op # "none" => trading_days_cache = EntryDays

\* the text of midnight of the first day of the month after year_month
FirstOfFollowingMonth(year_month) ==
    IF year_month[2] = 12 THEN <<year_month[1] + 1, 1, 1, 0>>
    ELSE <<year_month[1], year_month[2] + 1, 1, 0>>

\* C28: every month entry a fetch has written for month (Y, M) has as its
\* expires_at midnight of the first day of the following month, 1 January
\* of Y+1 for December; and an entry is treated as expired exactly when
\* now >= expires_at, that is, from that midnight on.
C28_ExpiresFirstOfNextMonth ==
    \A year_month \in DOMAIN monthly_cache :
        /\ monthly_cache[year_month].expires_at =
              FirstOfFollowingMonth(year_month)
        /\ is_cache_expired(ServiceState, year_month, clock) <=>
              (clock.year * 12 + clock.month
                  > year_month[1] * 12 + year_month[2])

\* the entry of December 2024, fetched on 31 December, expires with 1
\* January 2025, and is expired at that midnight
C28_Witness ==
    /\ last_call.op = "tick"
    /\ month_str_of(2024, 12) \in DOMAIN monthly_cache
    /\ monthly_cache[month_str_of(2024, 12)].expires_at = <<2025, 1, 1, 0>>
    /\ clock = [year |-> 2025, month |-> 1, day |-> 1, hour |-> 0]
    /\ is_cache_expired(ServiceState, month_str_of(2024, 12), clock)
    /\ ~is_cache_expired(ServiceState, month_str_of(2025, 1), clock)

\* the month of the clock and the month after it, as month keys
CurrentAndNextMonth ==
    {month_str_of(clock.year, clock.month),
     IF clock.month = 12 THEN month_str_of(clock.year + 1, 1)
     ELSE month_str_of(clock.year, clock.month + 1)}

\* C29: after refresh_calendar has returned True the month cache holds
\* entries for exactly the current month and the next month, the in-memory
\* set is exactly the union of their trading days, and the cache file
\* holds the same months.
C29_RefreshReloads ==
    (last_call.op = "refresh_calendar" /\ last_call.ret = TRUE) =>
        /\ DOMAIN monthly_cache = CurrentAndNextMonth
        /\ trading_days_cache = EntryDays
        /\ cache_file # <<>>
        /\ cache_file[1].valid
        /\ cache_file[1].months = monthly_cache

(***************************************************************************)
(* TradingCalendar() called by several threads at once.  A call runs       *)
(* __new__ and then __init__ on the object __new__ returned; the           *)
(* interpreter may switch threads between any two statements.  The record  *)
(* singleton holds the class attribute _instance (0 for None), per object  *)
(* its _initialized attribute and the condition of its caches, and per     *)
(* thread its position and the object it holds.                            *)
(***************************************************************************)
MaxThreads == 2
Threads == 1..MaxThreads

SingletonInit ==
    /\ Parked
    /\ orders = <<>>
    /\ call = NoCall
    /\ fw = NoWait
    /\ trading_days_cache = {}
    /\ monthly_cache = <<>>
    /\ cache_file = <<>>
    /\ clock = ClockTimes[1]
    /\ last_call = [op |-> "none"]
    /\ singleton = [active |-> TRUE,
                    instance |-> 0,
                    initialized |-> <<>>,
                    caches |-> <<>>,
                    pc |-> [t \in Threads |-> "new_test"],
                    self |-> [t \in Threads |-> 0],
                    bodies |-> 0,
                    clobbered |-> FALSE]

\* thread t takes one step that leaves the record as next
Step(t, next) ==
    /\ singleton' = next
    /\ UNCHANGED <<scheduled, orders, call, fw, service>>

\* __new__: if cls._instance is None
NewTest(t) ==
    /\ singleton.pc[t] = "new_test"
    /\ Step(t, [singleton EXCEPT
                   !.pc[t] = IF singleton.instance = 0 THEN "new_create"
                             ELSE "new_return"])

\* __new__: cls._instance = super().__new__(cls); the new object has no
\* _initialized attribute yet
NewCreate(t) ==
    /\ singleton.pc[t] = "new_create"
    /\ Step(t, [singleton EXCEPT
                   !.instance = Len(singleton.initialized) + 1,
                   !.initialized = Append(@, "unset"),
                   !.caches = Append(@, "absent"),
                   !.pc[t] = "new_mark"])

\* __new__: cls._instance._initialized = False, on whatever object the
\* class attribute names now
NewMark(t) ==
    /\ singleton.pc[t] = "new_mark"
    /\ Step(t, [singleton EXCEPT
                   !.initialized[singleton.instance] = "false",
                   !.pc[t] = "new_return"])

\* __new__: return cls._instance; __init__ is then called on that object
NewReturn(t) ==
    /\ singleton.pc[t] = "new_return"
    /\ Step(t, [singleton EXCEPT
                   !.self[t] = singleton.instance,
                   !.pc[t] = "init_test"])

\* __init__: if self._initialized: return; reading an attribute that is
\* not there raises AttributeError
InitTest(t) ==
    /\ singleton.pc[t] = "init_test"
    /\ LET mark == singleton.initialized[singleton.self[t]]
       IN  Step(t, [singleton EXCEPT
                       !.pc[t] = IF mark = "unset" THEN "raised"
                                 ELSE IF mark = "true" THEN "done"
                                 ELSE "init_reset"])

\* __init__: self._trading_days_cache = set(); self._monthly_cache = {}
InitReset(t) ==
    /\ singleton.pc[t] = "init_reset"
    /\ Step(t, [singleton EXCEPT
                   !.caches[singleton.self[t]] = "empty",
                   !.bodies = @ + 1,
                   !.clobbered =
                       @ \/ singleton.caches[singleton.self[t]] = "loaded",
                   !.pc[t] = "init_mark"])

\* __init__: self._initialized = True
InitMark(t) ==
    /\ singleton.pc[t] = "init_mark"
    /\ Step(t, [singleton EXCEPT
                   !.initialized[singleton.self[t]] = "true",
                   !.pc[t] = "init_load"])

\* __init__: _load_cache_from_file() and _preload_current_and_next_month()
InitLoad(t) ==
    /\ singleton.pc[t] = "init_load"
    /\ Step(t, [singleton EXCEPT
                   !.caches[singleton.self[t]] = "loaded",
                   !.pc[t] = "done"])

SingletonNext ==
    \E t \in Threads :
        \/ NewTest(t)
        \/ NewCreate(t)
        \/ NewMark(t)
        \/ NewReturn(t)
        \/ InitTest(t)
        \/ InitReset(t)
        \/ InitMark(t)
        \/ InitLoad(t)

SingletonSpec == SingletonInit /\ [][SingletonNext]_vars

\* C30: when several threads construct the service concurrently for the
\* first time, all of them obtain the same instance, the body of __init__
\* (reset the caches, load the file, preload two months) runs at most
\* once, and no construction resets caches that are already populated.
C30_CreateOnce ==
    singleton.active =>
        /\ \A t \in Threads : singleton.pc[t] # "raised"
        /\ \A t1 \in Threads, t2 \in Threads :
              (singleton.self[t1] # 0 /\ singleton.self[t2] # 0) =>
                  singleton.self[t1] = singleton.self[t2]
        /\ singleton.bodies <= 1
        /\ ~singleton.clobbered

(***************************************************************************)
(* AccountValueRecorder.record_account_value called again and again, on    *)
(* the same day and on later days.  The value history file is the          *)
(* sequence of its rows.  The text "YYYYMMDD" of a date is held as the     *)
(* number it spells: pandas reads the column back as integers and          *)
(* astype(str) gives their decimal text, which for a four-digit year is    *)
(* the text that was written.                                              *)
(***************************************************************************)
\* number of days the recorder is run on
MaxDays == 3

\* now.strftime('%Y%m%d')
strftime_compact(t) == t.year * 10000 + t.month * 100 + t.day

\* df['date'].astype(str).values of the file read back
date_column(log) == [i \in 1..Len(log) |-> log[i].date]

\* _append_to_csv: one more row at the end of the file
append_to_csv(log, record) == Append(log, record)

\* record_account_value that appends without looking for today's row
record_account_value_always_append(log, t, connect, query, total_asset) == IF connect = "ok" /\ query = "ok" THEN [log |-> append_to_csv(log, [date |-> strftime_compact(t), time |-> t.hour, total_asset |-> total_asset]), ret |-> TRUE] ELSE [log |-> log, ret |-> FALSE]

\* record_account_value at time t: connect() answers "ok" or "failed" or
\* raises, get_account_info() answers or raises; the file it leaves and
\* the value it returns
record_account_value(log, t, connect, query, total_asset) ==
    IF connect # "ok" THEN [log |-> log, ret |-> FALSE]
    ELSE IF query # "ok" THEN [log |-> log, ret |-> FALSE]
    ELSE LET record == [date |-> strftime_compact(t), time |-> t.hour,
                        total_asset |-> total_asset]
         IN  IF is_already_recorded(date_column(log), record.date)
             THEN [log |-> log, ret |-> TRUE]
             ELSE [log |-> append_to_csv(log, record), ret |-> TRUE]

\* the moments the recorder runs at: at 15 h by the schedule, or once more
\* at 16 h
RecordHours == {15, 16}

RecordInit ==
    /\ job = "idle"
    /\ pc = "idle"
    /\ now = PREPARE_TIME
    /\ status = NoStatus
    /\ connected = "no"
    /\ orders = <<>>
    /\ value_log \in {<<>>, <<[date |-> 20231229, time |-> 15,
                               total_asset |-> 10000]>>}
    /\ target_df = <<>>
    /\ account_info = [total_asset |-> 0]
    /\ current_position = <<>>
    /\ target_volumes = <<>>
    /\ sell_list = <<>>
    /\ buy_list = <<>>
    /\ waited = 0
    /\ sell_wait = "none"
    /\ buy_wait = "none"
    /\ quote_failed = {}
    /\ success = "none"
    /\ raised = ""
    /\ calendar = "none"
    /\ result = "none"
    /\ outcome = "none"
    /\ trace = <<>>
    /\ status_writes = 0
    /\ call = NoCall
    /\ fw = NoWait
    /\ trading_days_cache = {}
    /\ monthly_cache = <<>>
    /\ cache_file = <<>>
    /\ clock = [year |-> 2024, month |-> 1, day |-> 2, hour |-> 15]
    /\ last_call = [op |-> "none"]
    /\ singleton = [active |-> FALSE]

\* one call of record_account_value; the call record keeps the inputs, the
\* file before the call and the value returned
RecordCall ==
    /\ \E connect \in {"ok", "failed", "raise"}, query \in {"ok", "raise"},
          total_asset \in Assets :
          \E r \in {record_account_value(value_log, clock, connect, query,
                                         total_asset)} :
             /\ value_log' = r.log
             /\ call' = [op |-> "record", connect |-> connect,
                         query |-> query, date |-> strftime_compact(clock),
                         before |-> value_log, ret |-> r.ret]
    /\ UNCHANGED <<job, pc, now, status, connected, orders, run_locals,
                   exec_locals, success, raised, calendar, result, outcome,
                   trace, status_writes, fw, trading_days_cache,
                   monthly_cache, cache_file, clock, last_call, singleton>>

\* time passes: later the same day, or on to the next day's scheduled hour
RecordClock ==
    /\ \/ /\ clock.hour = 15
          /\ clock' = [clock EXCEPT !.hour = 16]
       \/ /\ clock.day < 1 + MaxDays
          /\ clock' = [clock EXCEPT !.day = @ + 1, !.hour = 15]
    /\ UNCHANGED <<job, pc, now, status, connected, orders, value_log,
                   run_locals, exec_locals, success, raised, calendar,
                   result, outcome, trace, status_writes, call, fw,
                   trading_days_cache, monthly_cache, cache_file, last_call,
                   singleton>>

RecordNext ==
    \/ RecordCall
    \/ RecordClock

RecordSpec == RecordInit /\ [][RecordNext]_vars

\* the rows of the file that carry the date
RowsOf(log, date) == {i \in 1..Len(log) : log[i].date = date}

StatusTimes == {PREPARE_TIME, TargetTime}

\* the messages passed to mark_completed, "" among them
StatusMessages == {<<>>, RebalanceSucceeded, RebalanceFailed}

\* a status file some of whose keys have never been written
PartialStatus == [NoStatus EXCEPT !.next_run_time = <<PREPARE_TIME>>]

StatusInit ==
    /\ job = "idle"
    /\ pc = "idle"
    /\ now = PREPARE_TIME
    /\ status \in {NoStatus, PartialStatus, PrevStatus}
    /\ connected = "no"
    /\ orders = <<>>
    /\ value_log = <<>>
    /\ target_df = <<>>
    /\ account_info = [total_asset |-> 0]
    /\ current_position = <<>>
    /\ target_volumes = <<>>
    /\ sell_list = <<>>
    /\ buy_list = <<>>
    /\ waited = 0
    /\ sell_wait = "none"
    /\ buy_wait = "none"
    /\ quote_failed = {}
    /\ success = "none"
    /\ raised = ""
    /\ calendar = "none"
    /\ result = "none"
    /\ outcome = "none"
    /\ trace = <<>>
    /\ status_writes = 0
    /\ call = NoCall
    /\ fw = NoWait
    /\ ServiceIdle

\* an operation of the manager leaves the file as st; the call record
\* keeps the operation, its arguments and the file before it
StatusOp(st, done) ==
    /\ status' = st
    /\ call' = done
    /\ UNCHANGED <<job, pc, now, connected, orders, value_log, run_locals,
                   exec_locals, success, raised, calendar, result, outcome,
                   trace, status_writes, fw, service, singleton>>

MarkRunning ==
    \E t \in StatusTimes :
        StatusOp(mark_running(status, t),
                 [op |-> "mark_running", before |-> status, t |-> t])

MarkCompleted ==
    \E ok \in BOOLEAN, message \in StatusMessages :
        StatusOp(mark_completed(status, ok, message),
                 [op |-> "mark_completed", before |-> status,
                  success |-> ok, message |-> message])

UpdateNextRunTime ==
    \E t \in StatusTimes :
        StatusOp(update_next_run(status, t),
                 [op |-> "update_next_run", before |-> status, t |-> t])

StatusNext ==
    \/ MarkRunning
    \/ MarkCompleted
    \/ UpdateNextRunTime

StatusSpec == StatusInit /\ [][StatusNext]_vars

\* the keys of the status file
StatusFields ==
    {"is_running", "last_run_time", "next_run_time", "last_status",
     "error_message"}

\* the file differs from the one before the call at most in the fields F
ChangesOnly(F) ==
    \A f \in StatusFields \ F : status[f] = call.before[f]

\* C32: the status file is one record overwritten in place, and each
\* operation changes only its own fields: update_next_run only
\* next_run_time; mark_running only is_running (to true) and
\* last_run_time; mark_completed only is_running (to false), last_status
\* and, when a message is given, error_message.  Every other field reads
\* back as it was.
C32_OwnFieldsOnly ==
    /\ DOMAIN status = StatusFields
    /\ call.op = "update_next_run" =>
          /\ ChangesOnly({"next_run_time"})
          /\ status.next_run_time = <<call.t>>
    /\ call.op = "mark_running" =>
          /\ ChangesOnly({"is_running", "last_run_time"})
          /\ status.is_running = <<TRUE>>
          /\ status.last_run_time = <<call.t>>
    /\ call.op = "mark_completed" =>
          /\ ChangesOnly(IF call.message # <<>>
                         THEN {"is_running", "last_status", "error_message"}
                         ELSE {"is_running", "last_status"})
          /\ status.is_running = <<FALSE>>
          /\ status.last_status =
                IF call.success THEN <<"success">> ELSE <<"failed">>
          /\ call.message # <<>> => status.error_message = <<call.message>>

\* mark_completed(True) without a message after a failed run: the message
\* of the failure is still in the file
C32_Witness ==
    /\ call.op = "mark_completed"
    /\ call.message = <<>>
    /\ call.success
    /\ call.before.last_status = <<"failed">>
    /\ call.before.error_message = <<RebalanceFailed>>
    /\ status.error_message = <<RebalanceFailed>>
    /\ status.last_status = <<"success">>
    /\ status.next_run_time = call.before.next_run_time

(***************************************************************************)
(* The status file written by two threads of the scheduler service: the   *)
(* job thread that runs execute_trading (mark_running, later              *)
(* mark_completed) and the main loop of SchedulerService.start, which      *)
(* calls update_next_run every SCHEDULER_CHECK_INTERVAL seconds.  Each of  *)
(* the three operations reads the file into a dict of its own and later    *)
(* writes that dict back; nothing keeps the other thread from running in   *)
(* between.  The record call holds the position and the dict of each       *)
(* thread.                                                                 *)
(***************************************************************************)
\* number of times the main loop refreshes the file while the job runs
MaxUpdates == 2

\* the next_run_time the main loop writes
NextRun == PREPARE_TIME

RaceInit ==
    /\ job = "trading"
    /\ pc = "idle"
    /\ now = PREPARE_TIME
    /\ status \in {NoStatus, PrevStatus}
    /\ connected = "no"
    /\ orders = <<>>
    /\ value_log = <<>>
    /\ target_df = <<>>
    /\ account_info = [total_asset |-> 0]
    /\ current_position = <<>>
    /\ target_volumes = <<>>
    /\ sell_list = <<>>
    /\ buy_list = <<>>
    /\ waited = 0
    /\ sell_wait = "none"
    /\ buy_wait = "none"
    /\ quote_failed = {}
    /\ success = "none"
    /\ raised = ""
    /\ calendar = "none"
    /\ result = "none"
    /\ outcome = "none"
    /\ trace = <<>>
    /\ status_writes = 0
    /\ call = [op |-> "race", run_pc |-> "start", run_status |-> NoStatus,
               ok |-> FALSE, message |-> <<>>,
               loop_pc |-> "sleep", loop_status |-> NoStatus, updates |-> 0]
    /\ fw = NoWait
    /\ ServiceIdle

\* a step of one of the two threads: the file and the thread records after it
RaceStep(file, threads) ==
    /\ status' = file
    /\ call' = threads
    /\ UNCHANGED <<job, pc, now, connected, orders, value_log, run_locals,
                   exec_locals, success, raised, calendar, outcome, trace,
                   status_writes, fw, service, singleton>>

\* mark_running: status = self.read_status() or {}
RunReadForRunning ==
    /\ call.run_pc = "start"
    /\ RaceStep(status, [call EXCEPT !.run_pc = "marking",
                                     !.run_status = status])
    /\ UNCHANGED result

\* mark_running: the two assignments and write_status(status)
RunWriteRunning ==
    /\ call.run_pc = "marking"
    /\ RaceStep(mark_running(call.run_status, now),
                [call EXCEPT !.run_pc = "working"])
    /\ UNCHANGED result

\* the run ends and calls mark_completed(success, message):
\* status = self.read_status() or {}
RunReadForCompleted ==
    /\ call.run_pc = "working"
    /\ \E ok \in BOOLEAN :
          RaceStep(status,
                   [call EXCEPT !.run_pc = "completing",
                                !.run_status = status,
                                !.ok = ok,
                                !.message = IF ok THEN RebalanceSucceeded
                                            ELSE RebalanceFailed])
    /\ UNCHANGED result

\* mark_completed: the assignments and write_status(status); the run
\* returns
RunWriteCompleted ==
    /\ call.run_pc = "completing"
    /\ RaceStep(mark_completed(call.run_status, call.ok, call.message),
                [call EXCEPT !.run_pc = "done"])
    /\ result' = IF call.ok THEN "true" ELSE "false"

\* update_next_run in the main loop: status = self.read_status() or {}
LoopRead ==
    /\ call.loop_pc = "sleep"
    /\ call.updates < MaxUpdates
    /\ RaceStep(status, [call EXCEPT !.loop_pc = "writing",
                                     !.loop_status = status])
    /\ UNCHANGED result

\* update_next_run in the main loop: the assignment and
\* write_status(status)
LoopWrite ==
    /\ call.loop_pc = "writing"
    /\ RaceStep(update_next_run(call.loop_status, NextRun),
                [call EXCEPT !.loop_pc = "sleep", !.updates = @ + 1])
    /\ UNCHANGED result

RaceNext ==
    \/ RunReadForRunning
    \/ RunWriteRunning
    \/ RunReadForCompleted
    \/ RunWriteCompleted
    \/ LoopRead
    \/ LoopWrite

RaceSpec == RaceInit /\ [][RaceNext]_vars

\* C33: under every interleaving of the job thread and the main loop,
\* once the run has completed the status file shows is_running false and
\* the last_status of that run: the periodic update_next_run never loses
\* or reverts what mark_completed wrote.
C33_OutcomeKept ==
    (call.op = "race" /\ call.run_pc = "done") =>
        /\ status.is_running = <<FALSE>>
        /\ status.last_status =
              IF result = "true" THEN <<"success">> ELSE <<"failed">>

(***************************************************************************)
(* From the plan to the first orders, on the two paths that drive the      *)
(* engine: execute_trading of the scheduler (job "trading") and            *)
(* execute_immediate_rebalance of the dashboard (job "manual").  Both      *)
(* call calculate_target_volume on the snapshot and hand the plan to       *)
(* execute_rebalance; only execute_trading tests the plan first.  The      *)
(* record call keeps what the batch quote of the computation answered.     *)
(***************************************************************************)
PlanInit ==
    /\ job \in {"trading", "manual"}
    /\ pc = "COMPUTE"
    /\ now = TargetTime
    /\ status = IF job = "trading" THEN mark_running(NoStatus, PREPARE_TIME)
                                   ELSE NoStatus
    /\ status_writes = IF job = "trading" THEN 1 ELSE 0
    /\ connected = "ok"
    /\ orders = <<>>
    /\ value_log = <<>>
    /\ target_df \in TargetChoices \ {<<>>}
    /\ \E a \in Assets : account_info = [total_asset |-> a]
    /\ \E p \in PositionChoices : current_position = get_current_position(p)
    /\ target_volumes = <<>>
    /\ sell_list = <<>>
    /\ buy_list = <<>>
    /\ waited = 0
    /\ sell_wait = "none"
    /\ buy_wait = "none"
    /\ quote_failed = {}
    /\ success = "none"
    /\ raised = ""
    /\ calendar = "trading"
    /\ result = "none"
    /\ outcome = "none"
    /\ trace = <<"COMPUTE">>
    /\ call = [op |-> "plan", tick_ok |-> FALSE, realtime_data |-> <<>>,
               sell_data |-> <<>>, buy_data |-> <<>>]
    /\ fw = NoWait
    /\ ServiceIdle

\* execute_immediate_rebalance: execute_rebalance returned ok; the
\* dashboard reports it and writes no status file
ManualReturn(ok, e) ==
    /\ success' = IF ok THEN "true" ELSE "false"
    /\ raised' = e
    /\ result' = IF ok THEN "true" ELSE "false"
    /\ outcome' = IF ok THEN "SUCCESS" ELSE "FAILED"
    /\ pc' = "DONE"
    /\ trace' = Append(trace, IF ok THEN "SUCCESS" ELSE "FAILED")
    /\ UNCHANGED <<status, status_writes>>

\* execute_immediate_rebalance: the except branch
ManualRaise(e) ==
    /\ raised' = e
    /\ result' = "false"
    /\ outcome' = "FAILED"
    /\ pc' = "DONE"
    /\ trace' = Append(trace, "FAILED")
    /\ UNCHANGED <<status, status_writes, success>>

\* execute_rebalance returns to whichever caller drove it
PlanReturn(ok, e) ==
    IF job = "trading"
    THEN IF ok THEN ReturnTrue /\ e = "" ELSE ReturnFalse(e)
    ELSE ManualReturn(ok, e)

PlanRaise(e) == IF job = "trading" THEN Raise(e) ELSE ManualRaise(e)

\* calculate_target_volume and what the caller does with the plan:
\* execute_trading returns False on an empty plan, and
\* execute_immediate_rebalance goes on to execute_rebalance with any plan
PlanCompute ==
    /\ pc = "COMPUTE"
    /\ \E tick_ok \in BOOLEAN :
       \E realtime_data \in IF tick_ok THEN QuoteAnswers(Keys(target_df))
                                       ELSE {<<>>} :
          LET plan == calculate_target_volume(target_df,
                          account_info.total_asset, tick_ok, realtime_data)
          IN  /\ target_volumes' = plan
              /\ call' = [call EXCEPT !.tick_ok = tick_ok,
                                      !.realtime_data = realtime_data]
              /\ IF job = "trading" /\ plan = <<>>
                 THEN EmptyPlan(IF tick_ok THEN "" ELSE "get_full_tick failed")
                 ELSE Goto("EXECUTE")
    /\ UNCHANGED <<job, now, connected, orders, value_log, target_df,
                   account_info, current_position, exec_locals, calendar,
                   fw, service, singleton>>

\* execute_rebalance, step 1: the two diff loops
PlanDiff ==
    /\ pc = "EXECUTE"
    /\ sell_list' = SellList(target_volumes, current_position)
    /\ buy_list' = BuyList(target_volumes, current_position)
    /\ IF sell_list' # <<>>
       THEN pc' = "SELL" /\ UNCHANGED <<trace, ending>>
       ELSE IF buy_list' # <<>>
       THEN pc' = "BUY" /\ UNCHANGED <<trace, ending>>
       ELSE PlanReturn(TRUE, "")
    /\ UNCHANGED <<job, now, connected, orders, value_log, run_locals,
                   waited, sell_wait, buy_wait, quote_failed, calendar, unit>>

\* execute_rebalance, steps 2 and 4: as PhaseSubmit, with the answer of the
\* batch quote kept in the record of the call
PlanPhase(side, list) ==
    \/ /\ quote_failed' = quote_failed \cup {side}
       /\ PlanReturn(FALSE, "get_full_tick failed")
       /\ UNCHANGED <<orders, waited, call>>
    \/ \E realtime_data \in QuoteAnswers(StockList(list)) :
          /\ call' = IF side = "SELL"
                     THEN [call EXCEPT !.sell_data = <<realtime_data>>]
                     ELSE [call EXCEPT !.buy_data = <<realtime_data>>]
          /\ \/ /\ orders' = orders \o SubmitLoop(side, list, realtime_data,
                                                  1, Len(list))
                /\ waited' = 0
                /\ pc' = IF side = "SELL" THEN "SELL_WAIT" ELSE "BUY_WAIT"
                /\ UNCHANGED <<quote_failed, trace, ending>>
             \/ \E n \in 0..(Len(list) - 1) :
                   /\ SubmitLoop(side, list, realtime_data, n + 1, n + 1)
                         # <<>>
                   /\ orders' = orders \o SubmitLoop(side, list,
                                                     realtime_data, 1, n)
                   /\ PlanRaise("order_stock raised")
                   /\ UNCHANGED <<quote_failed, waited>>

PlanSell ==
    /\ pc = "SELL"
    /\ PlanPhase("SELL", sell_list)
    /\ UNCHANGED <<job, now, connected, value_log, run_locals, sell_list,
                   buy_list, sell_wait, buy_wait, calendar, fw, service,
                   singleton>>

PlanBuy ==
    /\ pc = "BUY"
    /\ PlanPhase("BUY", buy_list)
    /\ UNCHANGED <<job, now, connected, value_log, run_locals, sell_list,
                   buy_list, sell_wait, buy_wait, calendar, fw, service,
                   singleton>>

\* execute_rebalance, step 3: the fill-wait of the sell phase
PlanSellWait ==
    /\ pc = "SELL_WAIT"
    /\ PollOrders(/\ sell_wait' = "success"
                  /\ IF buy_list # <<>>
                     THEN pc' = "BUY" /\ UNCHANGED <<trace, ending>>
                     ELSE PlanReturn(TRUE, "")
                  /\ UNCHANGED <<orders, waited, buy_wait>>,
                  /\ sell_wait' = "timeout"
                  /\ PlanReturn(FALSE, "")
                  /\ UNCHANGED <<orders, waited, buy_wait>>)
    /\ UNCHANGED <<job, now, connected, value_log, run_locals, sell_list,
                   buy_list, quote_failed, calendar, unit>>

\* execute_rebalance, step 5: the fill-wait of the buy phase
PlanBuyWait ==
    /\ pc = "BUY_WAIT"
    /\ PollOrders(/\ buy_wait' = "success"
                  /\ PlanReturn(TRUE, "")
                  /\ UNCHANGED <<orders, waited, sell_wait>>,
                  /\ buy_wait' = "timeout"
                  /\ PlanReturn(FALSE, "")
                  /\ UNCHANGED <<orders, waited, sell_wait>>)
    /\ UNCHANGED <<job, now, connected, value_log, run_locals, sell_list,
                   buy_list, quote_failed, calendar, unit>>

PlanNext ==
    \/ PlanCompute
    \/ PlanDiff
    \/ PlanSell
    \/ PlanSellWait
    \/ PlanBuy
    \/ PlanBuyWait
    \/ Fill

PlanSpec == PlanInit /\ [][PlanNext]_vars

\* the target stocks the computation skipped
Skipped == Keys(target_df) \ Keys(target_volumes)

\* the diff of execute_rebalance has been made
Diffed == call.op = "plan" /\ (sell_list # <<>> \/ buy_list # <<>>)

\* C34: the plan has as keys exactly the target stocks that have a quote
\* with a non-zero third-level ask; a skipped target stock is absent from
\* the plan, and in the diff that follows a held stock that was skipped
\* counts as target 0: its whole can_use_volume becomes a SELL intent.
C34_SkippedIsSold ==
    /\ (call.op = "plan" /\ pc # "COMPUTE") =>
          Keys(target_volumes) =
              {target_df[i].stock_code :
                  i \in IF call.tick_ok
                        THEN Priced(target_df, call.realtime_data) ELSE {}}
    /\ Diffed =>
          \A i \in 1..Len(current_position) :
             LET pos == current_position[i]
                 intents == {k \in 1..Len(sell_list) :
                                sell_list[k].stock_code = pos.stock_code}
             IN  pos.stock_code \in Skipped =>
                    IF pos.can_use_volume > 0
                    THEN /\ Cardinality(intents) = 1
                         /\ \A k \in intents :
                               sell_list[k].volume = pos.can_use_volume
                    ELSE intents = {}

\* the scheduled run priced MainB only; StarA, half of the target, had no
\* usable quote, is held, and is sold out with its whole usable volume
C34_Witness ==
    /\ Diffed
    /\ job = "trading"
    /\ Keys(target_df) = {StarA, MainB}
    /\ Keys(target_volumes) = {MainB}
    /\ \E i \in 1..Len(current_position) :
          /\ current_position[i].stock_code = StarA
          /\ current_position[i].can_use_volume = 200
    /\ \E k \in 1..Len(sell_list) :
          sell_list[k] = [stock_code |-> StarA, volume |-> 200]

\* C35: on the scheduled path and on the manual path alike an empty plan
\* ends the run before execute_rebalance: nothing is diffed, no order is
\* submitted, and the holdings are never submitted as SELL orders.
C35_EmptyPlanBlocks ==
    (call.op = "plan" /\ pc # "COMPUTE" /\ target_volumes = <<>>) =>
        /\ pc = "DONE"
        /\ result = "false"
        /\ success = "none"
        /\ sell_list = <<>>
        /\ orders = <<>>

\* an order of the account's list that has not fully traded
Unfilled(o) == o.traded_volume < o.order_volume

\* an order that was on the account's list before the first fill-wait of
\* the run began and is still not fully traded: placed by another client
\* before the run traded, or by the sell phase of the run itself
NeverFilled(i) ==
    /\ Unfilled(orders[i])
    /\ i \notin RunOrders("BUY")

\* C36: the fill-wait judges the account's whole order list.  When the run
\* has ended after a fill-wait and the list holds an order that was there
\* through every wait and never filled, no fill-wait of the run succeeded:
\* the one that ran timed out and execute_rebalance returned False,
\* whatever became of the orders the run itself submitted.
C36_WholeListJudged ==
    (job = "trading" /\ pc = "DONE" /\ (sell_wait # "none" \/ buy_wait # "none")
        /\ \E i \in 1..Len(orders) : NeverFilled(i)) =>
        /\ sell_wait # "success"
        /\ buy_wait # "success"
        /\ "timeout" \in {sell_wait, buy_wait}
        /\ success = "false"
        /\ result = "false"

\* the run's own sell orders are all fully traded, the only unfilled order
\* is the one another client placed, and the sell-phase wait timed out
C36_Witness ==
    /\ job = "trading"
    /\ pc = "DONE"
    /\ sell_wait = "timeout"
    /\ result = "false"
    /\ RunOrders("SELL") # {}
    /\ \A i \in RunOrders("SELL") \cup RunOrders("BUY") : FullyTraded(orders[i])
    /\ \E i \in 1..Len(orders) :
          orders[i].strategy = "other" /\ Unfilled(orders[i])

\* the orders the run submitted on one side for one stock, in order
PhaseOrders(side, s) ==
    SelectSeq(orders, LAMBDA o : /\ o.strategy = "qmt_weight_sync"
                                 /\ o.side = side
                                 /\ o.stock_code = s)

Volumes(seq) == [i \in 1..Len(seq) |-> seq[i].order_volume]

\* the limit price the phase reads for s: bidPrice[4] / askPrice[4] of the
\* source, 0 when the answer has no entry for s
LimitPrice(side, realtime_data, s) ==
    IF s \notin DOMAIN realtime_data THEN 0
    ELSE IF side = "SELL" THEN realtime_data[s].bidPrice[5]
                          ELSE realtime_data[s].askPrice[5]

\* the loop of a phase ran to its end on the answer data: every intent with
\* a limit price is on the order list in full, every other intent is not
Submitted(side, list, data) ==
    \A k \in 1..Len(list) :
       LET s == list[k].stock_code
           price == LimitPrice(side, data, s)
       IN  IF price # 0
           THEN Volumes(PhaseOrders(side, s)) =
                    Volumes(IntentOrders(side, s, list[k].volume, price))
           ELSE PhaseOrders(side, s) = <<>>

\* the sell loop / the buy loop ran to its end
SellLoopDone == call.op = "plan" /\ call.sell_data # <<>> /\ sell_wait # "none"
BuyLoopDone == call.op = "plan" /\ call.buy_data # <<>> /\ buy_wait # "none"

\* every intent of the run met a missing quote or a zero limit price, and
\* the run came to its end with an empty order list
AllSkipped ==
    /\ call.op = "plan"
    /\ pc = "DONE"
    /\ sell_list # <<>> \/ buy_list # <<>>
    /\ sell_list # <<>> => SellLoopDone
    /\ buy_list # <<>> => BuyLoopDone
    /\ orders = <<>>

\* C37 as stated: a run in which every intent is skipped and the order list
\* is empty returns true.
C37_Original == AllSkipped => result = "true"

\* C37: a skipped intent does not fail the run and does not stop its phase:
\* once the loop of a phase has run, every intent with a non-zero limit
\* price is submitted in full, wherever it stands among skipped ones.  A
\* run with every intent skipped and an empty order list has submitted
\* nothing and returns True, unless the order query raised at every poll of
\* a fill-wait up to the ceiling.
C37_SkipIsNoFailure ==
    /\ SellLoopDone => Submitted("SELL", sell_list, call.sell_data[1])
    /\ BuyLoopDone => Submitted("BUY", buy_list, call.buy_data[1])
    /\ AllSkipped =>
          /\ raised = ""
          /\ quote_failed = {}
          /\ \/ result = "true" /\ "timeout" \notin {sell_wait, buy_wait}
             \/ /\ result = "false"
                /\ "timeout" \in {sell_wait, buy_wait}
                /\ ~(waited < MaxWaitTime)

\* every sell and every buy intent of the run was skipped, nothing is on
\* the order list, both fill-waits found it empty and the run returned True
C37_Witness ==
    /\ AllSkipped
    /\ sell_list # <<>>
    /\ buy_list # <<>>
    /\ sell_wait = "success"
    /\ buy_wait = "success"
    /\ result = "true"

\* the batch quote call of the sell phase / of the buy phase raised
SellQuoteFailed == job = "trading" /\ pc = "DONE" /\ "SELL" \in quote_failed
BuyQuoteFailed == job = "trading" /\ pc = "DONE" /\ "BUY" \in quote_failed

\* what a failed batch quote leaves behind
QuoteFailureOutcome ==
    /\ SellQuoteFailed =>
          /\ result = "false"
          /\ success = "false"
          /\ RunOrders("SELL") = {}
          /\ RunOrders("BUY") = {}
          /\ sell_wait = "none"
          /\ buy_wait = "none"
    /\ BuyQuoteFailed =>
          /\ result = "false"
          /\ success = "false"
          /\ RunOrders("BUY") = {}
          /\ buy_wait = "none"
          /\ sell_list # <<>> => sell_wait = "success"
          /\ \A i \in RunOrders("SELL") : FullyTraded(orders[i])

\* the step on which a batch quote call fails
QuoteFailureStep == quote_failed' # quote_failed

\* C38: a failed batch quote call in the sell phase makes execute_rebalance
\* return False with no order of either side submitted; a failed batch
\* quote call in the buy phase makes it return False with no BUY order
\* submitted, and the SELL orders filled before it stay as they are: the
\* failing step changes nothing on the order list.
C38_QuoteFailureAborts ==
    /\ []QuoteFailureOutcome
    /\ [][QuoteFailureStep => /\ orders' = orders
                              /\ pc' = "DONE"
                              /\ result' = "false"]_vars

\* the buy-phase quote call failed after the sell orders of the run had
\* filled: the run is over, failed, with its SELL orders fully traded
C38_Witness ==
    /\ BuyQuoteFailed
    /\ result = "false"
    /\ RunOrders("SELL") # {}
    /\ \A i \in RunOrders("SELL") : FullyTraded(orders[i])
    /\ RunOrders("BUY") = {}

(***************************************************************************)
(* Claims about the calendar tiers after a fetch.                          *)
(***************************************************************************)
\* the call just made asked about a date whose month has, after the call,
\* an unexpired entry that does not list the date
AbsentFromFreshEntry ==
    /\ last_call.op = "is_trading_day"
    /\ last_call.date # NoDate
    /\ ~NoFreshEntry(last_call.date)
    /\ LET entry == monthly_cache[strftime_month(last_call.date)]
       IN  \A k \in 1..Len(entry.trading_days) :
              entry.trading_days[k] # strftime_day(last_call.date)

FailedFetchStep ==
    /\ last_call'.op = "is_trading_day"
    /\ last_call'.fetches # <<>>
    /\ last_call'.fetches[1] \notin DOMAIN monthly_cache'

\* C40: a failed remote fetch is never surfaced as a failure of
\* is_trading_day and leaves the calendar state as it was: the month
\* cache, the in-memory set of trading days and the cache file are the
\* same as before the call, and the call answers with the static policy.
C40_FailedFetchChangesNothing ==
    [][ FailedFetchStep =>
          /\ ~last_call'.caught
          /\ last_call'.ret = is_trading_day_fallback(last_call'.date)
          /\ monthly_cache' = monthly_cache
          /\ trading_days_cache' = trading_days_cache
          /\ cache_file' = cache_file ]_vars

=============================================================================
